---- MODULE Spec2Model ----
(***************************************************************************)
(* A model of jxskiss/xxid: the ID value and its binary, base62 and string *)
(* encodings (xxid.go, base62.go) and the process-wide time-and-counter    *)
(* sequencer that New() draws from.                                        *)
(*                                                                         *)
(* 64-bit quantities are kept as big-endian sequences of 8 bytes, because  *)
(* the model checker's integers are 32 bits wide; a uint32 limb of the     *)
(* base62 long division is kept as a pair of 16-bit halves <<hi, lo>>.     *)
(***************************************************************************)
EXTENDS Integers, Sequences, FiniteSets, TLC

(***************************************************************************)
(* Bounds of the model.                                                    *)
(***************************************************************************)
\* wall-clock readings are drawn from 1..MaxClock (milliseconds)
MaxClock == 2
\* number of calls to New / NewWithTime in one behaviour
MaxCalls == 3

(***************************************************************************)
(* Byte and byte-sequence helpers.                                         *)
(***************************************************************************)
Zeros(n) == [i \in 1..n |-> 0]

Filled(n, b) == [i \in 1..n |-> b]

\* s[a..b], 1-indexed and inclusive, empty when b < a
Slice(s, a, b) == [i \in 1..(IF b >= a THEN b - a + 1 ELSE 0) |-> s[a + i - 1]]

\* binary.BigEndian.PutUint16
PutUint16(x) == <<x \div 256, x % 256>>

\* the two bytes read low byte first
Uint16LittleEndian(s, p) == s[p + 1] * 256 + s[p]

\* binary.BigEndian.Uint16 of the two bytes of s starting at position p
Uint16(s, p) == s[p] * 256 + s[p + 1]

\* the int64 value n (0 <= n < 2^31) as 8 big-endian bytes
I64(n) ==
  [i \in 1..8 |->
     IF i <= 4 THEN 0
     ELSE IF i = 5 THEN (n \div 16777216) % 256
     ELSE IF i = 6 THEN (n \div 65536) % 256
     ELSE IF i = 7 THEN (n \div 256) % 256
     ELSE n % 256]

\* bytes.Compare(a, b) < 0
RECURSIVE LexLess(_, _)
LexLess(a, b) ==
  IF b = <<>> THEN FALSE
  ELSE IF a = <<>> THEN TRUE
  ELSE IF a[1] # b[1] THEN a[1] < b[1]
  ELSE LexLess(Tail(a), Tail(b))

\* a < b for two int64 values given as 8 bytes (two's complement)
LessI64(a, b) ==
  LET na == a[1] >= 128
      nb == b[1] >= 128
  IN IF na # nb THEN na ELSE LexLess(a, b)

\* x << 3 on a 64-bit value
Shl3(b) ==
  [i \in 1..8 |-> ((b[i] * 8) % 256) + (IF i < 8 THEN b[i + 1] \div 32 ELSE 0)]

\* x >> 3 on an unsigned 64-bit value
Shr3(b) ==
  [i \in 1..8 |-> b[i] \div 8 + (IF i > 1 THEN (b[i - 1] % 8) * 32 ELSE 0)]

(***************************************************************************)
(* The ID value and its tables.                                            *)
(***************************************************************************)
Random == 0
HostID == 1
IPv4 == 2
IPv6 == 3
Specified4 == 4
Specified8 == 5
Specified16 == 6
maxMachineIDType == 6

minBinEncodedLen == 16
maxBinEncodedLen == 28
minBase62EncodedLen == 22
maxBase62EncodedLen == 38
minStringEncodedLen == 38

flagMask == 32768

\* the tables are indexed by the machine ID type, 0..6
machineIdLength(k) == <<4, 4, 4, 16, 4, 8, 16>>[k + 1]
binEncodedLength(k) == <<16, 16, 16, 28, 16, 20, 28>>[k + 1]
\* b62EncodedLength with the entries of the 8-byte and the 16-byte kinds exchanged
b62EncodedLengthSwapped(k) == <<22, 22, 22, 27, 22, 38, 27>>[k + 1]

b62EncodedLength(k) == <<22, 22, 22, 38, 22, 27, 38>>[k + 1]
strEncodedLength(k) == <<38, 38, 38, 62, 38, 46, 62>>[k + 1]
\* binDecodedLength = [...]int{22: 16, 27: 20, 38: 28}: 0 at every other index
binDecodedLength(n) == IF n = 22 THEN 16 ELSE IF n = 27 THEN 20 ELSE IF n = 38 THEN 28 ELSE 0

MkID(t, p, c, f, k, m) ==
  [timeMsec |-> t, pidOrPort |-> p, counter |-> c, flag |-> f, mIDType |-> k, machineID |-> m]

zeroID == MkID(Zeros(8), 0, 0, 0, 0, Zeros(16))

\* newID without the substitution of a random flag
newIDFlagKept(gen, timeMsec, counter, rf) ==
  MkID(timeMsec, gen.pidOrPort, counter, gen.flag, gen.mIDType, gen.machineID)

\* newID: the generator's fields, and randFlag() for a flag field of 0
newID(gen, timeMsec, counter, rf) ==
  LET id == MkID(timeMsec, gen.pidOrPort, counter, gen.flag, gen.mIDType, gen.machineID)
  IN IF id.flag = 0 THEN [id EXCEPT !.flag = rf] ELSE id

\* ID.MachineID
MachineID(id) == Slice(id.machineID, 1, machineIdLength(id.mIDType))

\* ID.Short: timeMsec<<16 | counter as an int64
Short(id) == Slice(id.timeMsec, 3, 8) \o PutUint16(id.counter)

\* flag | flagMask on 16 bits
OrFlagMask(flag) == IF flag >= flagMask THEN flag ELSE flag + flagMask

\* ID.SetFlag: a copy of the ID with the flag and the explicitly-set marker
SetFlag(id, flag) == [id EXCEPT !.flag = OrFlagMask(flag)]

\* an accessor that returns the stored field as it is
FlagStored(id) == id.flag

\* ID.Flag: 0 when the marker bit is clear, else the flag without the marker
Flag(id) == IF id.flag < flagMask THEN 0 ELSE id.flag - flagMask

(***************************************************************************)
(* Binary form.                                                            *)
(***************************************************************************)
\* the 8 bytes with a time outside 0 .. 2^45 - 1 stored as 2^45 - 1, not wrapped
TimeAndTypeSaturated(id) ==
  LET t == id.timeMsec
      fits == t[1] = 0 /\ t[2] = 0 /\ t[3] < 32
      s == Shl3(IF fits THEN t ELSE <<0, 0, 31, 255, 255, 255, 255, 255>>)
  IN [s EXCEPT ![8] = s[8] + id.mIDType]

\* the 8 bytes PutUint64 writes: uint64(timeMsec)<<3 | mIDType
TimeAndType(id) ==
  LET s == Shl3(id.timeMsec) IN [s EXCEPT ![8] = s[8] + id.mIDType]

\* copy(buf[off:off+len(bytes)], bytes), off counted from 0
Put(buf, off, bytes) ==
  [i \in 1..Len(buf) |-> IF i > off /\ i <= off + Len(bytes) THEN bytes[i - off] ELSE buf[i]]

\* encodeBinary with the machine ID type left out of the first 6 bytes
encodeBinaryNoType(id) ==
  LET mIdLen == machineIdLength(id.mIDType)
      o1 == Put(Zeros(binEncodedLength(id.mIDType)), 0, Slice(Shl3(id.timeMsec), 3, 8))
      o2 == Put(o1, 6, PutUint16(id.counter))
      o3 == Put(o2, 8, Slice(id.machineID, 1, mIdLen))
      o4 == Put(o3, 8 + mIdLen, PutUint16(id.pidOrPort))
  IN Put(o4, 10 + mIdLen, PutUint16(id.flag))

\* encodeBinary with the flag written before the counter instead of last
encodeBinaryFlagEarly(id) ==
  LET mIdLen == machineIdLength(id.mIDType)
      o1 == Put(Zeros(binEncodedLength(id.mIDType)), 0, Slice(TimeAndType(id), 3, 8))
      o2 == Put(o1, 6, PutUint16(id.flag))
      o3 == Put(o2, 8, PutUint16(id.counter))
      o4 == Put(o3, 10, Slice(id.machineID, 1, mIdLen))
  IN Put(o4, 10 + mIdLen, PutUint16(id.pidOrPort))

\* encodeBinary with the counter written after the machine ID instead of before it
encodeBinaryCounterLate(id) ==
  LET mIdLen == machineIdLength(id.mIDType)
      o1 == Put(Zeros(binEncodedLength(id.mIDType)), 0, Slice(TimeAndType(id), 3, 8))
      o2 == Put(o1, 6, Slice(id.machineID, 1, mIdLen))
      o3 == Put(o2, 6 + mIdLen, PutUint16(id.counter))
      o4 == Put(o3, 8 + mIdLen, PutUint16(id.pidOrPort))
  IN Put(o4, 10 + mIdLen, PutUint16(id.flag))

encodeBinary(id) ==
  LET out == Zeros(binEncodedLength(id.mIDType))
      \* timestamp since epoch and machine ID type, 6 bytes
      o1 == Put(out, 0, Slice(TimeAndType(id), 3, 8))
      \* increment, 2 bytes
      o2 == Put(o1, 6, PutUint16(id.counter))
      \* machine ID
      mIdLen == IF id.mIDType \in {Random, HostID, IPv4, Specified4} THEN 4
                ELSE IF id.mIDType = Specified8 THEN 8
                ELSE 16
      o3 == Put(o2, 8, Slice(id.machineID, 1, mIdLen))
      \* pid or port number, 2 bytes
      o4 == Put(o3, 8 + mIdLen, PutUint16(id.pidOrPort))
      \* flag, 2 bytes
  IN Put(o4, 10 + mIdLen, PutUint16(id.flag))

Ok(id) == [err |-> "nil", id |-> id]
Fail(e) == [err |-> e, id |-> zeroID]

\* decodeBinary with the exact-length check made before the kind is looked at
decodeBinaryLengthFirst(src) ==
  LET inputLen == Len(src) IN
  IF inputLen < minBinEncodedLen THEN [err |-> "errIncorrectBinaryLength", id |-> zeroID]
  ELSE IF inputLen \notin {16, 20, 28} THEN [err |-> "errIncorrectBinaryLength", id |-> zeroID]
  ELSE IF Uint16(src, 5) % 8 > maxMachineIDType
    THEN [err |-> "errUnknownMachineIDType", id |-> zeroID]
  ELSE [err |-> "errIncorrectBinaryLength", id |-> zeroID]

\* decodeBinary without the exact-length check: a longer buffer is read as far as needed
decodeBinaryNoExactLength(src) ==
  LET inputLen == Len(src)
      kind == Uint16(src, 5) % 8
  IN IF inputLen < minBinEncodedLen THEN [err |-> "errIncorrectBinaryLength", id |-> zeroID]
     ELSE IF kind > maxMachineIDType THEN [err |-> "errUnknownMachineIDType", id |-> zeroID]
     ELSE IF inputLen < binEncodedLength(kind)
       THEN [err |-> "errIncorrectBinaryLength", id |-> zeroID]
     ELSE [err |-> "nil",
           id |-> [zeroID EXCEPT !.mIDType = kind, !.counter = Uint16(src, 7)]]

decodeBinary(src) ==
  LET inputLen == Len(src) IN
  IF inputLen < minBinEncodedLen THEN Fail("errIncorrectBinaryLength")
  ELSE
    LET tmp == <<0, 0>> \o Slice(src, 1, 6)
        timeMsec == Shr3(tmp)
        mIDType == tmp[8] % 8
    IN IF mIDType > maxMachineIDType THEN Fail("errUnknownMachineIDType")
       ELSE IF inputLen # binEncodedLength(mIDType) THEN Fail("errIncorrectBinaryLength")
       ELSE
         LET mIdLen == machineIdLength(mIDType)
             offset == 8 + mIdLen
         IN Ok(MkID(timeMsec,
                    Uint16(src, offset + 1),
                    Uint16(src, 7),
                    Uint16(src, offset + 3),
                    mIDType,
                    Slice(src, 9, 8 + mIdLen) \o Zeros(16 - mIdLen)))

Binary(id) == encodeBinary(id)

ParseBinary(src) == decodeBinary(src)

(***************************************************************************)
(* Base62 (base62.go).  A uint32 limb is a pair <<high 16 bits, low 16     *)
(* bits>>; a string is the sequence of its bytes.                          *)
(***************************************************************************)
rawLen == 15
encodedLen == 20

\* an alphabet with the lowercase letters before the uppercase ones
base62CharactersLowerFirst(d) == IF d < 10 THEN 48 + d ELSE IF d < 36 THEN 87 + d ELSE 29 + d

\* base62Characters[d]
base62Characters(d) == IF d < 10 THEN 48 + d ELSE IF d < 36 THEN 55 + d ELSE 61 + d

\* dec[char], for char < 128; 0 for a byte that is no base62 character
dec(ch) ==
  IF ch >= 48 /\ ch <= 57 THEN ch - 48
  ELSE IF ch >= 65 /\ ch <= 90 THEN 10 + ch - 65
  ELSE IF ch >= 97 /\ ch <= 122 THEN 36 + ch - 97
  ELSE 0

\* minEncoded = "00000000000000000000"
minEncoded == Filled(20, 48)

\* the four words encodeBase62 splits src into; it reads src[0..14] only
encodeParts(src) ==
  << <<src[1] * 256 + src[2], src[3] * 256 + src[4]>>,
     <<src[5] * 256 + src[6], src[7] * 256 + src[8]>>,
     <<src[9] * 256 + src[10], src[11] * 256 + ((src[12] * 2) % 256) + (src[13] \div 128)>>,
     <<src[13] % 128, src[14] * 256 + src[15]>> >>

\* one pass of the inner loop of encodeBase62 over bp: the quotient and the remainder.
\* value = c + remainder*2^32 (2^23 for the last word), digit = value / 62
RECURSIVE encodeDivide(_, _, _, _)
encodeDivide(bp, i, remainder, quotient) ==
  IF i > Len(bp) THEN [quotient |-> quotient, remainder |-> remainder]
  ELSE
    LET c == bp[i]
        last == (i = Len(bp))
        \* the last word: value < 62 * 2^23
        v23 == c[1] * 65536 + c[2] + remainder * 8388608
        \* another word, divided 16 bits at a time
        v1 == remainder * 65536 + c[1]
        v2 == (v1 % 62) * 65536 + c[2]
        digit == IF last THEN <<(v23 \div 62) \div 65536, (v23 \div 62) % 65536>>
                 ELSE <<v1 \div 62, v2 \div 62>>
        rem == IF last THEN v23 % 62 ELSE v2 % 62
    IN encodeDivide(bp, i + 1, rem,
                    IF quotient # <<>> \/ digit # <<0, 0>> THEN Append(quotient, digit)
                    ELSE quotient)

\* the outer loop of encodeBase62: the digits, most significant first
RECURSIVE encodeDigits(_, _)
encodeDigits(bp, digits) ==
  IF bp = <<>> THEN digits
  ELSE LET r == encodeDivide(bp, 1, 0, <<>>)
       IN encodeDigits(r.quotient, <<base62Characters(r.remainder)>> \o digits)

\* encodeBase62(dst, src) on a fresh dst = make([]byte, dstLen): the digits at the
\* end, and copy(dst[:n], minEncoded) at the head, which sets at most 20 bytes
encodeBase62(dstLen, src) ==
  LET digits == encodeDigits(encodeParts(src), <<>>)
      n == dstLen - Len(digits)
  IN [i \in 1..n |-> IF i <= Len(minEncoded) THEN minEncoded[i] ELSE 0] \o digits

\* one pass of the inner loop of decodeBase62 over the base62 digits bp, dividing by
\* 2^23 (wide = FALSE) or 2^32 (wide = TRUE); the remainder is a limb
RECURSIVE decodeDivide(_, _, _, _, _)
decodeDivide(bp, i, remainder, quotient, wide) ==
  IF i > Len(bp) THEN [quotient |-> quotient, remainder |-> remainder]
  ELSE
    LET c == bp[i]
        \* value = c + remainder*62, 16 bits at a time
        lo == remainder[2] * 62 + c
        hi == remainder[1] * 62 + (lo \div 65536)
        digit == IF wide THEN hi \div 65536 ELSE hi \div 128
        rem == IF wide THEN <<hi % 65536, lo % 65536>> ELSE <<hi % 128, lo % 65536>>
    IN decodeDivide(bp, i + 1, rem,
                    IF quotient # <<>> \/ digit # 0 THEN Append(quotient, digit) ELSE quotient,
                    wide)

\* the outer loop of decodeBase62: n bytes of dst are still unset, written holds
\* dst[n:]; a write below dst[0] panics
RECURSIVE decodeLoop(_, _, _)
decodeLoop(bp, n, written) ==
  IF bp = <<>> THEN [err |-> "nil", n |-> n, written |-> written]
  ELSE IF n = rawLen THEN
    LET r == decodeDivide(bp, 1, <<0, 0>>, <<>>, FALSE)
    IN decodeLoop(r.quotient, n - 3,
                  <<r.remainder[1], r.remainder[2] \div 256, r.remainder[2] % 256>> \o written)
  ELSE IF n < 4 THEN [err |-> "panic", n |-> n, written |-> written]
  ELSE
    LET r == decodeDivide(bp, 1, <<0, 0>>, <<>>, TRUE)
    IN decodeLoop(r.quotient, n - 4,
                  <<r.remainder[1] \div 256, r.remainder[1] % 256,
                    r.remainder[2] \div 256, r.remainder[2] % 256>> \o written)

\* decodeBase62(dst, src) on a fresh dst = make([]byte, dstLen).  It reads
\* src[0..19] only; indexing dec with a byte above 127, or src shorter than 20,
\* panics; it returns no other error
decodeBase62(dstLen, src) ==
  IF Len(src) < encodedLen \/ \E k \in 1..encodedLen : src[k] >= 128
  THEN [err |-> "panic", dst |-> <<>>]
  ELSE
    LET parts == [k \in 1..encodedLen |-> dec(src[k])]
        r == decodeLoop(parts, dstLen, <<>>)
        dst == Zeros(r.n) \o r.written
    IN IF r.err # "nil" \/ dstLen < 13 THEN [err |-> "panic", dst |-> <<>>]
       ELSE [err |-> "nil",
             dst |-> [k \in 1..dstLen |->
                        IF k = 12 THEN dst[12] \div 2
                        ELSE IF k = 13 /\ dst[12] % 2 = 1
                          THEN (IF dst[13] >= 128 THEN dst[13] ELSE dst[13] + 128)
                        ELSE dst[k]]]

\* ID.Base62
Base62(id) == encodeBase62(b62EncodedLength(id.mIDType), encodeBinary(id))

\* ParseBase62 without the look-up of the length in binDecodedLength
ParseBase62NoTableCheck(src) ==
  LET inputLen == Len(src) IN
  IF inputLen < minBase62EncodedLen \/ inputLen > maxBase62EncodedLen
  THEN [err |-> "errIncorrectBase62Length", id |-> zeroID]
  ELSE
    LET r == decodeBase62(binDecodedLength(inputLen), src)
    IN IF r.err # "nil" THEN [err |-> r.err, id |-> zeroID] ELSE decodeBinary(r.dst)

\* ParseBase62
ParseBase62(src) ==
  LET inputLen == Len(src) IN
  IF inputLen < minBase62EncodedLen \/ inputLen > maxBase62EncodedLen
  THEN Fail("errIncorrectBase62Length")
  ELSE
    LET binLen == binDecodedLength(inputLen) IN
    IF binLen = 0 THEN Fail("errIncorrectBase62Length")
    ELSE
      LET r == decodeBase62(binLen, src)
      IN IF r.err # "nil" THEN Fail(r.err) ELSE decodeBinary(r.dst)

(***************************************************************************)
(* Arithmetic on numbers wider than 31 bits, kept as big-endian byte       *)
(* sequences, and the calendar of package time.                            *)
(***************************************************************************)
\* b * k modulo 256^Len(b), for 0 <= k < 2^23
RECURSIVE BigMulFrom(_, _, _, _)
BigMulFrom(b, k, i, carry) ==
  IF i = 0 THEN <<>>
  ELSE LET prod == b[i] * k + carry
       IN Append(BigMulFrom(b, k, i - 1, prod \div 256), prod % 256)

BigMul(b, k) == BigMulFrom(b, k, Len(b), 0)

\* b + n modulo 256^Len(b), for n >= 0
RECURSIVE BigAddFrom(_, _, _)
BigAddFrom(b, i, carry) ==
  IF i = 0 THEN <<>>
  ELSE LET sum == b[i] + carry
       IN Append(BigAddFrom(b, i - 1, sum \div 256), sum % 256)

BigAddSmall(b, n) == BigAddFrom(b, Len(b), n)

\* a + c modulo 256^Len(a), two numbers of the same length
RECURSIVE BigAddBig(_, _, _, _)
BigAddBig(a, c, i, carry) ==
  IF i = 0 THEN <<>>
  ELSE LET sum == a[i] + c[i] + carry
       IN Append(BigAddBig(a, c, i - 1, sum \div 256), sum % 256)

BigAdd(a, c) == BigAddBig(a, c, Len(a), 0)

\* a - c modulo 256^Len(a), two numbers of the same length
RECURSIVE BigSubBig(_, _, _, _)
BigSubBig(a, c, i, borrow) ==
  IF i = 0 THEN <<>>
  ELSE LET diff == a[i] - c[i] - borrow
       IN Append(BigSubBig(a, c, i - 1, IF diff < 0 THEN 1 ELSE 0),
                 IF diff < 0 THEN diff + 256 ELSE diff)

BigSub(a, c) == BigSubBig(a, c, Len(a), 0)

\* the quotient and the remainder of b by d, for 0 < d < 2^23
RECURSIVE BigDivFrom(_, _, _, _)
BigDivFrom(b, d, i, rem) ==
  IF i > Len(b) THEN [q |-> <<>>, r |-> rem]
  ELSE LET v == rem * 256 + b[i]
           rest == BigDivFrom(b, d, i + 1, v % d)
       IN [q |-> <<v \div d>> \o rest.q, r |-> rest.r]

BigDivMod(b, d) == BigDivFrom(b, d, 1, 0)

\* the value of b, which must be below 2^31
RECURSIVE BigToInt(_)
BigToInt(b) == IF b = <<>> THEN 0 ELSE BigToInt(Slice(b, 1, Len(b) - 1)) * 256 + b[Len(b)]

\* the two's complement number b widened by n bytes
SignExtend(b, n) == Filled(n, IF b[1] >= 128 THEN 255 ELSE 0) \o b

\* the calendar is worked on days counted from five 400-year cycles before
\* 1970-01-01, so that no intermediate value is negative: the shift in days
\* (5 * 146097), in milliseconds and in nanoseconds (10 bytes each)
ShiftDays == 5 * 146097
ShiftMsec == <<0, 0, 0, 0, 57, 102, 217, 212, 12, 0>>
ShiftNsec == <<0, 3, 107, 225, 161, 75, 212, 27, 0, 0>>

\* year, month and day of the day z days after 1970-01-01 (proleptic Gregorian)
CivilFromDays(z) ==
  LET zz == z + 719468
      era == zz \div 146097
      doe == zz - era * 146097
      yoe == (doe - (doe \div 1460) + (doe \div 36524) - (doe \div 146096)) \div 365
      doy == doe - (365 * yoe + (yoe \div 4) - (yoe \div 100))
      mp == (5 * doy + 2) \div 153
      d == doy - ((153 * mp + 2) \div 5) + 1
      m == IF mp < 10 THEN mp + 3 ELSE mp - 9
      y == yoe + era * 400 + (IF m <= 2 THEN 1 ELSE 0)
  IN [year |-> y, month |-> m, day |-> d]

\* the number of days from 1970-01-01 to the given date
DaysFromCivil(y0, m, d) ==
  LET y == IF m <= 2 THEN y0 - 1 ELSE y0
      era == y \div 400
      yoe == y - era * 400
      doy == ((153 * (IF m > 2 THEN m - 3 ELSE m + 9) + 2) \div 5) + d - 1
      doe == yoe * 365 + (yoe \div 4) - (yoe \div 100) + doy
  IN era * 146097 + doe - 719468

isLeap(y) == (y % 4 = 0) /\ ((y % 100 # 0) \/ (y % 400 = 0))

daysIn(m, y) ==
  IF m = 2 THEN (IF isLeap(y) THEN 29 ELSE 28)
  ELSE IF m \in {4, 6, 9, 11} THEN 30 ELSE 31

\* time.Unix(0, nsec) shown in a zone zoneOff seconds east of UTC: Date() and
\* Clock().  nsec is an int64 (8 bytes); the seconds are floor(nsec / 1e9)
DateClock(nsec, zoneOff) ==
  LET shifted == BigAdd(SignExtend(nsec, 2), ShiftNsec)
      absSec == BigDivMod(BigDivMod(BigDivMod(shifted, 1000).q, 1000).q, 1000).q
      dm == BigDivMod(absSec, 86400)
      loc == dm.r + zoneOff
      adj == IF loc < 0 THEN -1 ELSE IF loc >= 86400 THEN 1 ELSE 0
      sod == loc - adj * 86400
      date == CivilFromDays(BigToInt(dm.q) - ShiftDays + adj)
  IN [year |-> date.year, month |-> date.month, day |-> date.day,
      hour |-> sod \div 3600, minute |-> (sod \div 60) % 60, second |-> sod % 60]

\* time.Date(y, m, d, h, mi, s, 0, zone).Unix()*1e3 + msec as an int64, for a zone
\* zoneOff seconds east of UTC and -1000 < msec < 1000
UnixMsec(y, m, d, h, mi, s, msec, zoneOff) ==
  LET days == DaysFromCivil(y, m, d) + ShiftDays
      \* one day and one second are moved from the first term into the next
      absSec == BigAddSmall(BigMul(BigAddSmall(Zeros(10), days - 1), 86400),
                            h * 3600 + mi * 60 + s - zoneOff + 86399)
      absMsec == BigAddSmall(BigMul(absSec, 1000), msec + 1000)
  IN Slice(BigSub(absMsec, ShiftMsec), 3, 10)

(***************************************************************************)
(* String form.  time.Local is a zone at a fixed offset, zoneOff seconds   *)
(* east of UTC; timeMsec is not negative.                                  *)
(***************************************************************************)
\* int2byte on a slice of n bytes: the n low decimal digits of val
int2byte(n, val) == [i \in 1..n |-> 48 + ((val \div (10 ^ (n - i))) % 10)]

hexChar(x) == IF x < 10 THEN 48 + x ELSE 87 + x

\* hex.Encode
RECURSIVE hexEncode(_)
hexEncode(bytes) ==
  IF bytes = <<>> THEN <<>>
  ELSE <<hexChar(bytes[1] \div 16), hexChar(bytes[1] % 16)>> \o hexEncode(Tail(bytes))

\* the value of a hex digit, -1 for another byte
fromHexChar(ch) ==
  IF ch >= 48 /\ ch <= 57 THEN ch - 48
  ELSE IF ch >= 97 /\ ch <= 102 THEN ch - 87
  ELSE IF ch >= 65 /\ ch <= 70 THEN ch - 55
  ELSE -1

\* hex.Decode of an even number of characters
hexDecode(chars) ==
  IF \E k \in 1..Len(chars) : fromHexChar(chars[k]) < 0 THEN [ok |-> FALSE, bytes |-> <<>>]
  ELSE [ok |-> TRUE,
        bytes |-> [k \in 1..(Len(chars) \div 2) |->
                     fromHexChar(chars[2 * k - 1]) * 16 + fromHexChar(chars[2 * k])]]

isDigit(ch) == ch >= 48 /\ ch <= 57

\* ID.String with the sub-second field written as 000
StringNoMsec(id, zoneOff) ==
  LET mIdLen == machineIdLength(id.mIDType)
      t == DateClock(BigMul(id.timeMsec, 1000000), zoneOff)
      o1 == Put(Zeros(strEncodedLength(id.mIDType)), 0,
                int2byte(4, t.year) \o int2byte(2, t.month) \o int2byte(2, t.day)
                  \o int2byte(2, t.hour) \o int2byte(2, t.minute) \o int2byte(2, t.second)
                  \o int2byte(3, 0))
      o2 == Put(o1, 17, hexEncode(PutUint16(id.flag)))
      o3 == Put(o2, 21, int2byte(1, id.mIDType))
      o4 == Put(o3, 22, hexEncode(Slice(id.machineID, 1, mIdLen)))
  IN Put(o4, 22 + mIdLen * 2, hexEncode(PutUint16(id.pidOrPort)) \o hexEncode(PutUint16(id.counter)))

\* ID.String
String(id, zoneOff) ==
  LET out == Zeros(strEncodedLength(id.mIDType))
      \* timestamp
      t == DateClock(BigMul(id.timeMsec, 1000000), zoneOff)
      msec == BigDivMod(id.timeMsec, 1000).r
      o1 == Put(out, 0,
                int2byte(4, t.year) \o int2byte(2, t.month) \o int2byte(2, t.day)
                  \o int2byte(2, t.hour) \o int2byte(2, t.minute) \o int2byte(2, t.second)
                  \o int2byte(3, msec))
      \* flag
      o2 == Put(o1, 17, hexEncode(PutUint16(id.flag)))
      \* machine ID type
      o3 == Put(o2, 21, int2byte(1, id.mIDType))
      \* machine ID
      mIdLen == machineIdLength(id.mIDType)
      o4 == Put(o3, 22, hexEncode(Slice(id.machineID, 1, mIdLen)))
      \* pid or port number, increment
  IN Put(o4, 22 + mIdLen * 2, hexEncode(PutUint16(id.pidOrPort)) \o hexEncode(PutUint16(id.counter)))

\* two decimal digits at position p
Num2(str, p) == (str[p] - 48) * 10 + (str[p + 1] - 48)

\* parseTimestamp: time.ParseInLocation("20060102150405", buf[:14], time.Local),
\* then strconv.ParseInt(buf[14:17], 10, 0), which takes a sign before the digits
parseTimestamp(buf, zoneOff) ==
  IF \E k \in 1..14 : ~isDigit(buf[k]) THEN [ok |-> FALSE, timeMsec |-> Zeros(8)]
  ELSE
    LET y == Num2(buf, 1) * 100 + Num2(buf, 3)
        mo == Num2(buf, 5)
        d == Num2(buf, 7)
        h == Num2(buf, 9)
        mi == Num2(buf, 11)
        sec == Num2(buf, 13)
        signed == buf[15] \in {43, 45}
        msecOk == (isDigit(buf[15]) \/ signed) /\ isDigit(buf[16]) /\ isDigit(buf[17])
        msec == IF signed THEN (IF buf[15] = 45 THEN -1 ELSE 1) * Num2(buf, 16)
                ELSE (buf[15] - 48) * 100 + Num2(buf, 16)
    IN IF mo < 1 \/ mo > 12 \/ h >= 24 \/ mi >= 60 \/ sec >= 60 THEN [ok |-> FALSE, timeMsec |-> Zeros(8)]
       ELSE IF d < 1 \/ d > daysIn(mo, y) THEN [ok |-> FALSE, timeMsec |-> Zeros(8)]
       ELSE IF ~msecOk THEN [ok |-> FALSE, timeMsec |-> Zeros(8)]
       ELSE [ok |-> TRUE, timeMsec |-> UnixMsec(y, mo, d, h, mi, sec, msec, zoneOff)]

\* ParseString with the timestamp parsed before the kind and the length are checked
ParseStringTimestampFirst(str, zoneOff) ==
  LET inputLen == Len(str) IN
  IF inputLen < minStringEncodedLen THEN [err |-> "errIncorrectStringLength", id |-> zeroID]
  ELSE IF ~parseTimestamp(Slice(str, 1, 17), zoneOff).ok
    THEN [err |-> "errInvalidStringRepr", id |-> zeroID]
  ELSE
    LET machineIdType == (str[22] + 208) % 256 IN
    IF machineIdType > maxMachineIDType THEN [err |-> "errUnknownMachineIDType", id |-> zeroID]
    ELSE IF inputLen # strEncodedLength(machineIdType)
      THEN [err |-> "errIncorrectStringLength", id |-> zeroID]
    ELSE [err |-> "nil", id |-> zeroID]

\* ParseString
ParseString(str, zoneOff) ==
  LET inputLen == Len(str) IN
  IF inputLen < minStringEncodedLen THEN Fail("errIncorrectStringLength")
  ELSE
    LET machineIdType == (str[22] + 208) % 256 IN
    IF machineIdType > maxMachineIDType THEN Fail("errUnknownMachineIDType")
    ELSE IF inputLen # strEncodedLength(machineIdType) THEN Fail("errIncorrectStringLength")
    ELSE
      LET mIdLen == machineIdLength(machineIdType)
          ts == parseTimestamp(Slice(str, 1, 17), zoneOff)
          flag == hexDecode(Slice(str, 18, 21))
          mid == hexDecode(Slice(str, 23, 22 + mIdLen * 2))
          pid == hexDecode(Slice(str, 23 + mIdLen * 2, 26 + mIdLen * 2))
          cnt == hexDecode(Slice(str, 27 + mIdLen * 2, 30 + mIdLen * 2))
      IN IF ~ts.ok \/ ~flag.ok \/ ~mid.ok \/ ~pid.ok \/ ~cnt.ok THEN Fail("errInvalidStringRepr")
         ELSE Ok(MkID(ts.timeMsec, Uint16(pid.bytes, 1), Uint16(cnt.bytes, 1),
                      Uint16(flag.bytes, 1), machineIdType, mid.bytes \o Zeros(16 - mIdLen)))

(***************************************************************************)
(* The sequencer and the minting calls.                                    *)
(***************************************************************************)
VARIABLES
  counter,      \* the shared 16-bit counter, incremented atomically
  lastIssued,   \* the last composite timeMsec<<16|counter handed out under the lock
  mu,           \* the mutex: 0 when free, else the thread holding it
  pc,           \* each thread's position
  readT,        \* per thread: the clock reading of the call in progress
  incr,         \* per thread: the counter value the call obtained
  nCalls,       \* calls begun so far
  minted,       \* history: the IDs minted; those of New in the order of the locked section
  gen,          \* the generator's configured fields
  input,        \* the input drawn for a conversion under test
  op,           \* the conversion applied to it, "none" before
  output        \* what the conversion returned

seqVars == <<counter, lastIssued, mu, pc, readT, incr, nCalls, minted, gen>>

pureVars == <<input, op, output>>

vars == <<seqVars, pureVars>>

Threads == {1, 2}

ClockValues == 1..MaxClock

\* the times given to NewWithTime, in nanoseconds: whole milliseconds and
\* the last nanosecond of each
NanoTimes == {t * 1000000 + d : t \in ClockValues, d \in {0, 999999}}

\* the counter starts at a random 16-bit value
CounterSeeds == {7, 65534}

\* the values randFlag() may return: the explicitly-set marker bit is clear
RandFlags == {1, 32767}

Mid4 == <<124, 96, 244, 134>> \o Zeros(12)
Mid8 == <<8, 7, 6, 5, 4, 3, 2, 1>> \o Zeros(8)
Mid16 == <<32, 1, 13, 184, 133, 163, 0, 0, 0, 0, 138, 46, 3, 112, 115, 52>>

\* generator configurations: host ID with no flag, 8 bytes with flag 5, IPv6 with a port
GenSet ==
  { [pidOrPort |-> 58408, flag |-> 0, mIDType |-> HostID, machineID |-> Mid4],
    [pidOrPort |-> 58408, flag |-> flagMask + 5, mIDType |-> Specified8, machineID |-> Mid8],
    [pidOrPort |-> 9876, flag |-> flagMask, mIDType |-> IPv6, machineID |-> Mid16] }

\* Generator.UseFlag: the flag is stored with the explicitly-set marker
UseFlag(g, flag) == [g EXCEPT !.flag = OrFlagMask(flag)]

Composite(t, c) == t * 65536 + c

\* the locked section without the comparison against lastIssued
NextTacUnchecked(tac, last) == tac

\* the locked section letting a composite equal to lastIssued through
NextTacNoEqual(tac, last) == IF tac < last THEN last + 1 ELSE tac

\* a locked section that always steps past the last one issued
NextTacLastPlusOne(tac, last) == last + 1

\* the locked section's decision: keep tac, or step past the last one issued
NextTac(tac, last) == IF tac <= last THEN last + 1 ELSE tac

incrCounter(c) == (c + 1) % 65536

SeqInit ==
  /\ counter \in CounterSeeds
  /\ lastIssued = 0
  /\ mu = 0
  /\ pc = [th \in Threads |-> "idle"]
  /\ readT = [th \in Threads |-> 0]
  /\ incr = [th \in Threads |-> 0]
  /\ nCalls = 0
  /\ minted = <<>>
  /\ gen \in GenSet

\* readTimeAndCounter: timeMsec = now in milliseconds; the clock may show anything
ReadClock(th, t) ==
  /\ pc[th] = "idle"
  /\ nCalls < MaxCalls
  /\ nCalls' = nCalls + 1
  /\ readT' = [readT EXCEPT ![th] = t]
  /\ pc' = [pc EXCEPT ![th] = "incr"]
  /\ UNCHANGED <<counter, lastIssued, mu, incr, minted, gen>>

\* readTimeAndCounter: incr = incrCounter()
IncrCounter(th) ==
  /\ pc[th] = "incr"
  /\ counter' = incrCounter(counter)
  /\ incr' = [incr EXCEPT ![th] = counter']
  /\ pc' = [pc EXCEPT ![th] = "lock"]
  /\ UNCHANGED <<lastIssued, mu, readT, nCalls, minted, gen>>

\* readTimeAndCounter: mu.Lock()
Lock(th) ==
  /\ pc[th] = "lock"
  /\ mu = 0
  /\ mu' = th
  /\ pc' = [pc EXCEPT ![th] = "crit"]
  /\ UNCHANGED <<counter, lastIssued, readT, incr, nCalls, minted, gen>>

\* a locked section that stores the composite it decided on but returns the
\* time it read
SectionStaleTime(th, rf) ==
  /\ pc[th] = "crit"
  /\ mu = th
  /\ LET tac == NextTac(Composite(readT[th], incr[th]), lastIssued)
     IN /\ lastIssued' = tac
        /\ minted' = Append(minted,
             [op |-> "New", id |-> newID(gen, I64(readT[th]), tac % 65536, rf)])
  /\ mu' = 0
  /\ pc' = [pc EXCEPT ![th] = "idle"]
  /\ readT' = [readT EXCEPT ![th] = 0]
  /\ incr' = [incr EXCEPT ![th] = 0]
  /\ UNCHANGED <<counter, nCalls, gen>>

\* the locked section, mu.Unlock() and the return to New, which builds the ID
\* from the pair; the call's locals are dead after it
Section(th, rf) ==
  /\ pc[th] = "crit"
  /\ mu = th
  /\ LET tac == NextTac(Composite(readT[th], incr[th]), lastIssued)
     IN /\ lastIssued' = tac
        /\ minted' = Append(minted,
             [op |-> "New", id |-> newID(gen, I64(tac \div 65536), tac % 65536, rf)])
  /\ mu' = 0
  /\ pc' = [pc EXCEPT ![th] = "idle"]
  /\ readT' = [readT EXCEPT ![th] = 0]
  /\ incr' = [incr EXCEPT ![th] = 0]
  /\ UNCHANGED <<counter, nCalls, gen>>

\* a NewWithTime that passes its pair through the sequencer's locked section
NewWithTimeSequenced(th, nsec, rf) ==
  /\ pc[th] = "idle"
  /\ mu = 0
  /\ nCalls < MaxCalls
  /\ nCalls' = nCalls + 1
  /\ counter' = incrCounter(counter)
  /\ LET tac == NextTac(Composite(nsec \div 1000000, counter'), lastIssued)
     IN /\ lastIssued' = tac
        /\ minted' = Append(minted,
             [op |-> "NewWithTime", id |-> newID(gen, I64(tac \div 65536), tac % 65536, rf)])
  /\ UNCHANGED <<mu, pc, readT, incr, gen>>

\* NewWithTime(t): timeMsec = t.UnixNano() / 1e6 and the next counter value
NewWithTime(th, nsec, rf) ==
  /\ pc[th] = "idle"
  /\ nCalls < MaxCalls
  /\ nCalls' = nCalls + 1
  /\ counter' = incrCounter(counter)
  /\ minted' = Append(minted,
       [op |-> "NewWithTime", id |-> newID(gen, I64(nsec \div 1000000), counter', rf)])
  /\ UNCHANGED <<lastIssued, mu, pc, readT, incr, gen>>

\* no conversion is under test
PureIdle == input = <<>> /\ op = "none" /\ output = <<>>

\* no minting goes on
SeqIdle ==
  /\ counter = 0
  /\ lastIssued = 0
  /\ mu = 0
  /\ pc = [th \in Threads |-> "idle"]
  /\ readT = [th \in Threads |-> 0]
  /\ incr = [th \in Threads |-> 0]
  /\ nCalls = 0
  /\ minted = <<>>
  /\ gen = CHOOSE g \in GenSet : g.mIDType = HostID

(***************************************************************************)
(* The minting specification.                                              *)
(***************************************************************************)
Init == SeqInit /\ PureIdle

Next ==
  \/ \E th \in Threads, t \in ClockValues : ReadClock(th, t) /\ UNCHANGED pureVars
  \/ \E th \in Threads : IncrCounter(th) /\ UNCHANGED pureVars
  \/ \E th \in Threads : Lock(th) /\ UNCHANGED pureVars
  \/ \E th \in Threads, rf \in RandFlags : Section(th, rf) /\ UNCHANGED pureVars
  \/ \E th \in Threads, nsec \in NanoTimes, rf \in RandFlags :
       NewWithTime(th, nsec, rf) /\ UNCHANGED pureVars

Spec == Init /\ [][Next]_vars

\* the process calls New only
NewNext ==
  \/ \E th \in Threads, t \in ClockValues : ReadClock(th, t) /\ UNCHANGED pureVars
  \/ \E th \in Threads : IncrCounter(th) /\ UNCHANGED pureVars
  \/ \E th \in Threads : Lock(th) /\ UNCHANGED pureVars
  \/ \E th \in Threads, rf \in RandFlags : Section(th, rf) /\ UNCHANGED pureVars

SpecNew == Init /\ [][NewNext]_vars

(***************************************************************************)
(* The encodings of one ID: the input is an ID, the output its encoded     *)
(* form and what parsing that form returns.                                *)
(***************************************************************************)
\* timeMsec values: 0, 1300816219000, 1762300000000, 2^45-1, 2^45, 2^63-1
T0 == Zeros(8)
TScenario == <<0, 0, 1, 46, 222, 176, 75, 120>>
TNow == <<0, 0, 1, 154, 81, 67, 247, 0>>
T45Last == <<0, 0, 31, 255, 255, 255, 255, 255>>
T45 == <<0, 0, 32, 0, 0, 0, 0, 0>>
\* 9223372036854 and 9223372036855: the last timeMsec whose nanoseconds fit an int64, and the next
TNanoLast == <<0, 0, 8, 99, 123, 208, 90, 246>>
TNanoOver == <<0, 0, 8, 99, 123, 208, 90, 247>>
TMax == <<127, 255, 255, 255, 255, 255, 255, 255>>

CodecTimes == {T0, TScenario, TNow, TNanoLast, TNanoOver, T45Last, T45, TMax}

CodecCounters == {0, 1, 65535}

CodecPids == {0, 58408}

CodecFlags == {0, 5 + flagMask, 65535}

Kinds == 0..maxMachineIDType

\* machine IDs of kind k: a pattern and all 0xFF, zero beyond the kind's width
CodecMachineIDs(k) ==
  LET n == machineIdLength(k)
  IN { Slice(Mid16, 1, n) \o Zeros(16 - n), Filled(n, 255) \o Zeros(16 - n) }

CodecIDs ==
  UNION { { MkID(t, p, c, f, k, m) :
              t \in CodecTimes, p \in CodecPids, c \in CodecCounters, f \in CodecFlags,
              m \in CodecMachineIDs(k) } : k \in Kinds }

\* offsets of time.Local in seconds east of UTC: UTC, UTC+8, UTC-5
Zones == {0, 28800, -18000}

CodecInit ==
  /\ SeqIdle
  /\ input \in [id : CodecIDs, zone : Zones]
  /\ op = "none"
  /\ output = <<>>

DoBinary ==
  /\ op = "none"
  /\ op' = "Binary"
  /\ LET enc == Binary(input.id) IN output' = [enc |-> enc, parsed |-> ParseBinary(enc)]
  /\ UNCHANGED input

DoBase62 ==
  /\ op = "none"
  /\ op' = "Base62"
  /\ LET enc == Base62(input.id) IN output' = [enc |-> enc, parsed |-> ParseBase62(enc)]
  /\ UNCHANGED input

DoString ==
  /\ op = "none"
  /\ op' = "String"
  /\ LET enc == String(input.id, input.zone)
     IN output' = [enc |-> enc, parsed |-> ParseString(enc, input.zone)]
  /\ UNCHANGED input

CodecNext ==
  \/ DoBinary /\ UNCHANGED seqVars
  \/ DoBase62 /\ UNCHANGED seqVars
  \/ DoString /\ UNCHANGED seqVars

SpecCodec == CodecInit /\ [][CodecNext]_vars

(***************************************************************************)
(* The base62 codec on raw buffers, as Test_encodeBase62_decodeBase62      *)
(* drives it: a buffer of 16, 20 or 28 bytes is encoded into 22, 27 or 38  *)
(* characters and decoded into a buffer of the first length.               *)
(***************************************************************************)
binLengthList == <<16, 20, 28>>
b62LengthList == <<22, 27, 38>>

BufferBytes == {1, 128, 255}

\* all zero, all 0xFF, and one non-zero byte at each position
BuffersOf(n) ==
  {Zeros(n), Filled(n, 255)}
    \cup { [i \in 1..n |-> IF i = k THEN v ELSE 0] : k \in 1..n, v \in BufferBytes }

BufferInit ==
  /\ SeqIdle
  /\ \E i \in 1..Len(binLengthList) :
       input \in [n : {i}, src : BuffersOf(binLengthList[i])]
  /\ op = "none"
  /\ output = <<>>

DoEncodeDecode ==
  /\ op = "none"
  /\ op' = "EncodeDecode"
  /\ LET encoded == encodeBase62(b62LengthList[input.n], input.src)
     IN output' = [enc |-> encoded, dec |-> decodeBase62(binLengthList[input.n], encoded)]
  /\ UNCHANGED input

BufferNext == DoEncodeDecode /\ UNCHANGED seqVars

SpecBuffers == BufferInit /\ [][BufferNext]_vars

(***************************************************************************)
(* Two IDs compared in their three sortable forms.                         *)
(***************************************************************************)
OrderTimes == {TScenario, TNow, T45}

OrderKinds == {Random, HostID, Specified8, IPv6}

OrderFlags == {0, 65535}

OrderIDs ==
  UNION { { MkID(t, 58408, c, f, k, m) :
              t \in OrderTimes, c \in CodecCounters, f \in OrderFlags,
              m \in CodecMachineIDs(k) } : k \in OrderKinds }

OrderInit ==
  /\ SeqIdle
  /\ input \in [a : OrderIDs, b : OrderIDs]
  /\ op = "none"
  /\ output = <<>>

Compare ==
  /\ op = "none"
  /\ op' = "Compare"
  /\ output' = [short |-> LessI64(Short(input.a), Short(input.b)),
                base62 |-> LexLess(Base62(input.a), Base62(input.b)),
                binary |-> LexLess(Binary(input.a), Binary(input.b))]
  /\ UNCHANGED input

OrderNext == Compare /\ UNCHANGED seqVars

SpecOrder == OrderInit /\ [][OrderNext]_vars

(***************************************************************************)
(* The three parsers on arbitrary input: buffers and texts of valid and    *)
(* invalid lengths, with known and unknown kinds, with valid and invalid   *)
(* calendar fields and characters.                                         *)
(***************************************************************************)
\* a buffer of n bytes of one value whose sixth byte carries the 3 bits k
KindBuffer(n, k, fill) == [i \in 1..n |-> IF i = 6 THEN (fill - (fill % 8)) + k ELSE fill]

ParseBinLens == {0, 5, 15, 16, 17, 20, 28, 29}

ParseBuffers == { KindBuffer(n, k, fill) : n \in ParseBinLens, k \in 0..7, fill \in {0, 255} }

\* '!', '0', 'z', and a byte that is no ASCII character
TextFill == {33, 48, 122, 200}

ParseB62Lens == {0, 21, 22, 23, 26, 27, 37, 38, 39}

\* texts of one character, and texts of '0' with one other character among the
\* first 20
ParseTexts ==
  { Filled(n, c) : n \in ParseB62Lens, c \in TextFill }
    \cup { [i \in 1..n |-> IF i = q THEN c ELSE 48] :
             n \in {22, 27, 38}, q \in 1..encodedLen, c \in {33, 55, 122} }

\* string forms of three IDs, one of each width
StringSeeds ==
  { String(MkID(TScenario, 58408, 1, 5 + flagMask, k, m), 0) :
      k \in {Random, Specified8, IPv6}, m \in {Mid16} }

\* a seed as it is, and with month 13
CalendarVariants(str) == {str, [str EXCEPT ![5] = 49, ![6] = 51]}

\* '/', '0', '3', '5', '6', '7', '9', ':', 'a', and a byte that is no ASCII character
KindChars == {47, 48, 51, 53, 54, 55, 57, 58, 97, 200}

\* every variant with every kind character, whole, cut to 37 and 21 characters, and
\* one character longer
ParseStrings ==
  UNION { UNION { { [v EXCEPT ![22] = c], Slice([v EXCEPT ![22] = c], 1, 37),
                    Slice(v, 1, 21), Append([v EXCEPT ![22] = c], 48) } :
                  c \in KindChars } :
          v \in UNION { CalendarVariants(str) : str \in StringSeeds } }

ParseInit ==
  /\ SeqIdle
  /\ \/ input \in [form : {"binary"}, src : ParseBuffers, zone : {0}]
     \/ input \in [form : {"base62"}, src : ParseTexts, zone : {0}]
     \/ input \in [form : {"string"}, src : ParseStrings, zone : Zones]
  /\ op = "none"
  /\ output = <<>>

DoParseBinary ==
  /\ op = "none"
  /\ input.form = "binary"
  /\ op' = "ParseBinary"
  /\ output' = [parsed |-> ParseBinary(input.src)]
  /\ UNCHANGED input

DoParseBase62 ==
  /\ op = "none"
  /\ input.form = "base62"
  /\ op' = "ParseBase62"
  /\ output' = [parsed |-> ParseBase62(input.src)]
  /\ UNCHANGED input

DoParseString ==
  /\ op = "none"
  /\ input.form = "string"
  /\ op' = "ParseString"
  /\ output' = [parsed |-> ParseString(input.src, input.zone)]
  /\ UNCHANGED input

ParseNext ==
  \/ DoParseBinary /\ UNCHANGED seqVars
  \/ DoParseBase62 /\ UNCHANGED seqVars
  \/ DoParseString /\ UNCHANGED seqVars

SpecParse == ParseInit /\ [][ParseNext]_vars

(***************************************************************************)
(* Three inputs to be rejected, one for each parser: a base62 text one     *)
(* character short, a string form with kind digit 7, a buffer of 17 bytes. *)
(***************************************************************************)
ShortTexts == { Filled(n, c) : n \in {21, 26, 37}, c \in {48, 122} }

Digit7Strings ==
  { [v EXCEPT ![22] = 55] : v \in UNION { CalendarVariants(str) : str \in StringSeeds } }

Buffers17 == { KindBuffer(17, k, fill) : k \in 0..7, fill \in {0, 255} }

RejectInit ==
  /\ SeqIdle
  /\ input \in [b62 : ShortTexts, str : Digit7Strings, bin : Buffers17]
  /\ op = "none"
  /\ output = <<>>

ParseThree ==
  /\ op = "none"
  /\ op' = "ParseThree"
  /\ output' = [b62 |-> ParseBase62(input.b62),
                str |-> ParseString(input.str, 0),
                bin |-> ParseBinary(input.bin)]
  /\ UNCHANGED input

RejectNext == ParseThree /\ UNCHANGED seqVars

SpecReject == RejectInit /\ [][RejectNext]_vars

(***************************************************************************)
(* Properties of the sequencer.                                            *)
(***************************************************************************)
\* the entries of the history that New minted, in the order of the locked section
NewIDs(m) == SelectSeq(m, LAMBDA e : e.op = "New")

\* the pair (timeMsec, counter) as 10 bytes: for timeMsec >= 0 their byte order is
\* the order of the composite timeMsec<<16|counter taken without overflow
PairOf(id) == id.timeMsec \o PutUint16(id.counter)

AllIdle == \A th \in Threads : pc[th] = "idle"

\* C1: every call of the sequencer returns a pair whose composite is strictly
\* greater than the composite the previous call returned, whatever the clock
\* read (forward, the same millisecond, backward) and across a counter wrap.
C1_EachCallAbovePrevious ==
  [][LET a == NewIDs(minted)
         b == NewIDs(minted')
     IN (Len(b) = Len(a) + 1 /\ Len(a) >= 1)
          => LexLess(PairOf(a[Len(a)].id), PairOf(b[Len(b)].id))]_vars

\* two consecutive calls around the wrap of the counter: 65535, then 0 in the
\* next millisecond
C1_Witness ==
  \E i \in 1..(Len(minted) - 1) :
    /\ minted[i].op = "New" /\ minted[i + 1].op = "New"
    /\ minted[i].id.counter = 65535
    /\ minted[i + 1].id.counter = 0
    /\ \E k \in ClockValues :
         minted[i].id.timeMsec = I64(k) /\ minted[i + 1].id.timeMsec = I64(k + 1)

\* C2: under every interleaving of concurrent New calls the composites returned
\* are pairwise distinct and strictly increasing in the order of the locked section.
C2_ConcurrentStrictlyIncreasing ==
  LET a == NewIDs(minted)
  IN \A i, j \in 1..Len(a) :
       /\ (i < j => LexLess(PairOf(a[i].id), PairOf(a[j].id)))
       /\ (i # j => PairOf(a[i].id) # PairOf(a[j].id))

\* two New calls have overtaken each other between the counter increment and the
\* lock: the last composite's counter is ahead of the shared counter
C2_Witness ==
  /\ AllIdle
  /\ Len(minted) >= 2
  /\ \A i \in 1..Len(minted) : minted[i].op = "New"
  /\ lastIssued % 65536 # counter

\* C3: any two IDs minted in one process, by New or NewWithTime, have different
\* Short() values.
C3_ShortUnique ==
  \A i, j \in 1..Len(minted) : i # j => Short(minted[i].id) # Short(minted[j].id)

\* the Binary() and the Base62() forms of the entries of a history, in its order
RECURSIVE BinaryForms(_)
BinaryForms(m) == IF m = <<>> THEN <<>> ELSE <<Binary(Head(m).id)>> \o BinaryForms(Tail(m))

RECURSIVE Base62Forms(_)
Base62Forms(m) == IF m = <<>> THEN <<>> ELSE <<Base62(Head(m).id)>> \o Base62Forms(Tail(m))

RECURSIVE Pairs(_)
Pairs(m) == IF m = <<>> THEN <<>> ELSE <<PairOf(Head(m).id)>> \o Pairs(Tail(m))

\* every earlier entry of a sequence of byte strings is before every later one
Increasing(seq) == \A i, j \in 1..Len(seq) : i < j => LexLess(seq[i], seq[j])

\* C9: of two IDs minted by New on one Generator the earlier is the smaller by
\* (timeMsec, counter), by the byte order of Binary() and by the byte order of
\* Base62().
C9_MintedInOrder ==
  /\ Increasing(Pairs(NewIDs(minted)))
  /\ Increasing(BinaryForms(NewIDs(minted)))
  /\ Increasing(Base62Forms(NewIDs(minted)))

\* three New calls, the clock read of the last one not later than that of the first
C9_Witness ==
  LET a == NewIDs(minted)
  IN /\ Len(a) >= 3
     /\ a[1].id.timeMsec = a[3].id.timeMsec
     /\ a[1].id.flag # a[2].id.flag

(***************************************************************************)
(* Properties of the conversions.                                          *)
(***************************************************************************)
\* C4 as stated: for every ID with timeMsec >= 0, of any kind,
\* ParseBinary(Binary(v)) returns no error and v.
C4_BinaryRoundTripAnyTime ==
  op = "Binary" => output.parsed = Ok(input.id)

\* C4: for every ID of any of the seven kinds with 0 <= timeMsec < 2^45,
\* ParseBinary(Binary(v)) returns no error and an ID equal to v in every field.
C4_BinaryRoundTripBelow45Bits ==
  (op = "Binary" /\ LessI64(input.id.timeMsec, T45)) => output.parsed = Ok(input.id)

\* the largest 45-bit time in the widest layout, every flag bit set
C4_Witness ==
  /\ op = "Binary"
  /\ input.id.timeMsec = T45Last
  /\ input.id.mIDType = IPv6
  /\ input.id.flag = 65535
  /\ Len(output.enc) = maxBinEncodedLen

\* C5: for every ID of any of the seven kinds, ParseBase62(Base62(v)) returns no
\* error and an ID equal to v in every field.
C5_Base62RoundTrip ==
  op = "Base62" => output.parsed = Ok(input.id)

C7_BufferRoundTrip ==
  op = "EncodeDecode" => output.dec = [err |-> "nil", dst |-> input.src]

\* C8 as stated: for all IDs a and b, Short(a) < Short(b) iff Base62(a) is
\* before Base62(b) in byte order iff Binary(a) is before Binary(b) in byte order.
C8_OrdersAgreeAllPairs ==
  op = "Compare" => (output.short = output.base62 /\ output.base62 = output.binary)

\* C8: for IDs a and b of the same kind with 0 <= timeMsec < 2^45 and
\* Short(a) # Short(b), Short(a) < Short(b) iff Base62(a) is before Base62(b) in
\* byte order iff Binary(a) is before Binary(b) in byte order.
C8_OrdersAgreeSameKind ==
  (/\ op = "Compare"
   /\ input.a.mIDType = input.b.mIDType
   /\ LessI64(input.a.timeMsec, T45) /\ LessI64(input.b.timeMsec, T45)
   /\ Short(input.a) # Short(input.b))
    => (output.short = output.base62 /\ output.base62 = output.binary)

\* a is before b by the counter alone, and every later field of a is the larger
C8_Witness ==
  /\ op = "Compare"
  /\ input.a.mIDType = Specified8 /\ input.b.mIDType = Specified8
  /\ input.a.timeMsec = TNow /\ input.b.timeMsec = TNow
  /\ input.a.counter = 1 /\ input.b.counter = 65535
  /\ LexLess(input.b.machineID, input.a.machineID)
  /\ input.b.flag < input.a.flag
  /\ output.short

\* C10: the lengths of Binary(), Base62() and String() are 16/22/38 for Random,
\* HostID, IPv4 and Specified4, 20/27/46 for Specified8 and 28/38/62 for IPv6
\* and Specified16, and MachineID() has 4, 8 or 16 bytes accordingly.
C10_LengthsByKind ==
  LET k == input.id.mIDType
      w == IF k \in {Random, HostID, IPv4, Specified4} THEN <<16, 22, 38, 4>>
           ELSE IF k = Specified8 THEN <<20, 27, 46, 8>>
           ELSE <<28, 38, 62, 16>>
  IN /\ op = "Binary" => Len(output.enc) = w[1]
     /\ op = "Base62" => Len(output.enc) = w[2]
     /\ op = "String" => Len(output.enc) = w[3]
     /\ op # "none" => Len(MachineID(input.id)) = w[4]

\* the dense form of an ID of the 8-byte kind has been produced
C10_Witness ==
  /\ op = "Base62"
  /\ input.id.mIDType = Specified8
  /\ Len(output.enc) = 27
  /\ Len(MachineID(input.id)) = 8

(***************************************************************************)
(* Flags: a generator is configured, mints, and the ID's flag is set.      *)
(***************************************************************************)
FlagValues == {0, 1, 127, 128, 12345, 32767}

\* SetFlag takes any uint16
SetFlagValues == FlagValues \cup {32768, 65535}

NoFlag == 0 - 1

FlagInit ==
  /\ SeqInit
  /\ input = [use |-> NoFlag, set |-> NoFlag]
  /\ op = "none"
  /\ output = zeroID

\* gen.UseFlag(f)
DoUseFlag(f) ==
  /\ gen' = UseFlag(gen, f)
  /\ input' = [use |-> f, set |-> NoFlag]
  /\ op' = "UseFlag"
  /\ UNCHANGED <<counter, lastIssued, mu, pc, readT, incr, nCalls, minted, output>>

\* the generator mints: newID with a time, the next counter value and its fields
DoMint(t, rf) ==
  /\ nCalls < MaxCalls
  /\ nCalls' = nCalls + 1
  /\ counter' = incrCounter(counter)
  /\ output' = newID(gen, I64(t), counter', rf)
  /\ input' = [input EXCEPT !.set = NoFlag]
  /\ op' = "New"
  /\ UNCHANGED <<lastIssued, mu, pc, readT, incr, minted, gen>>

\* id = id.SetFlag(f) on the ID minted last
DoSetFlag(f) ==
  /\ op \in {"New", "SetFlag"}
  /\ output' = SetFlag(output, f)
  /\ input' = [input EXCEPT !.set = f]
  /\ op' = "SetFlag"
  /\ UNCHANGED seqVars

FlagNext ==
  \/ \E f \in FlagValues : DoUseFlag(f)
  \/ \E t \in ClockValues, rf \in RandFlags : DoMint(t, rf)
  \/ \E f \in SetFlagValues : DoSetFlag(f)

SpecFlag == FlagInit /\ [][FlagNext]_vars

(***************************************************************************)
(* The generator of the 15-byte ID: 4 bytes of seconds, 1 byte of flag,    *)
(* 4 bytes of machine ID, 2 bytes of pid, 4 bytes of counter.  The file    *)
(* holds two Generator types, told apart here by the field ver: 1 is the   *)
(* one with a template ID and UsePort(uint16), 2 the one with UsePort(int) *)
(* and no template, whose tmpl stays the nil ID.                           *)
(***************************************************************************)
PutUint32(v) == <<v \div 16777216, (v \div 65536) % 256, (v \div 256) % 256, v % 256>>

nilID == Zeros(rawLen)

\* Generator.updateTmpl: flag, machine ID and pid at their places in an ID
updateTmpl(g) ==
  IF g.ver = 1
  THEN [g EXCEPT !.tmpl = Zeros(4) \o <<g.flag>> \o g.machineID \o PutUint16(g.pid) \o Zeros(4)]
  ELSE g

\* the addresses UseIP ignores: 0.0.0.0, multicast and loopback
IgnoredIP(ip) == ip = Zeros(4) \/ ip[1] \in 224..239 \/ ip[1] = 127

\* Generator.UseIP
UseIP(g, ip) == updateTmpl(IF IgnoredIP(ip) THEN g ELSE [g EXCEPT !.machineID = ip])

\* a UsePort that stores a port of 0 as well
UsePortZeroToo(g, port) == updateTmpl([g EXCEPT !.pid = port])

\* Generator.UsePort(port uint16)
UsePort(g, port) == updateTmpl(IF port > 0 THEN [g EXCEPT !.pid = port] ELSE g)

\* Generator.UsePort(port int): the port is cast to uint16
UsePortInt(g, port) == IF port > 0 THEN [g EXCEPT !.pid = port % 65536] ELSE g

\* Generator.UseFlag(flag uint8), for a flag below 0x80
UseFlag15(g, flag) == updateTmpl([g EXCEPT !.flag = flag])

\* a newID that stores all 32 bits of the counter
newID15Unmasked(g, secs) ==
  PutUint32(secs) \o <<g.flag>> \o g.machineID \o PutUint16(g.pid)
    \o PutUint16(g.counter[1]) \o PutUint16(g.counter[2])

\* newID of the 15-byte ID, from the generator after its counter was incremented;
\* the counter's top bit is masked off
newID15(g, secs) ==
  LET c == PutUint16(g.counter[1]) \o PutUint16(g.counter[2])
  IN PutUint32(secs) \o <<g.flag>> \o g.machineID \o PutUint16(g.pid)
       \o <<c[1] % 128, c[2], c[3], c[4]>>

\* ID.Flag of the 15-byte ID: it reads the byte at index 5
Flag15(id) == IF id[6] >= 128 THEN 0 ELSE id[6]

\* ID.Port of the 15-byte ID
Port(id) == Uint16(id, 10)

\* ID.Machine of the 15-byte ID
Machine(id) == Slice(id, 6, 9)

\* randFlag: a random byte with the top bit set
RandFlags15 == {128, 255}

\* the counter's random start, below 2^24 in one type and below 2^30 in the
\* other; the uint32 is the pair of its high and low 16 bits
CounterSeeds15 == {<<0, 7>>, <<255, 65535>>}

\* atomic.AddUint32(&g.counter, 1)
AddUint32One(c) == IF c[2] < 65535 THEN <<c[1], c[2] + 1>> ELSE <<(c[1] + 1) % 65536, 0>>

\* NewGenerator(): the default generator's machine ID and pid, a random flag and counter
NewGenerators ==
  {updateTmpl([ver |-> v, machineID |-> Slice(Mid4, 1, 4), pid |-> 58408,
               flag |-> rf, counter |-> c, tmpl |-> nilID]) :
     v \in {1, 2}, rf \in RandFlags15, c \in CounterSeeds15}

\* 10.9.8.7, 192.168.1.77, and three addresses UseIP ignores
IPValues == {<<10, 9, 8, 7>>, <<192, 168, 1, 77>>, <<0, 0, 0, 0>>, <<127, 0, 0, 1>>, <<224, 0, 0, 1>>}

\* ports; those outside 0..65535 can be given to UsePort(port int) only
PortValues == {0 - 1, 0, 1, 65432, 65535, 65536, 70000}

FlagValues15 == {0, 1, 123, 127}

GenInit ==
  /\ gen \in NewGenerators
  /\ counter = 0
  /\ lastIssued = 0
  /\ mu = 0
  /\ pc = [th \in Threads |-> "idle"]
  /\ readT = [th \in Threads |-> 0]
  /\ incr = [th \in Threads |-> 0]
  /\ nCalls = 0
  /\ minted = <<>>
  /\ input = <<>>
  /\ op = "none"
  /\ output = nilID

GenFrame == UNCHANGED <<counter, lastIssued, mu, pc, readT, incr, minted>>

\* gen.UseIP(ip)
GenUseIP(ip) ==
  /\ gen' = UseIP(gen, ip)
  /\ input' = ip
  /\ op' = "UseIP"
  /\ UNCHANGED <<nCalls, output>>
  /\ GenFrame

\* gen.UsePort(port): a uint16 for the one type, an int for the other
GenUsePort(port) ==
  /\ gen.ver = 1 => port \in 0..65535
  /\ gen' = IF gen.ver = 1 THEN UsePort(gen, port) ELSE UsePortInt(gen, port)
  /\ input' = port
  /\ op' = "UsePort"
  /\ UNCHANGED <<nCalls, output>>
  /\ GenFrame

\* gen.UseFlag(flag)
GenUseFlag(flag) ==
  /\ gen' = UseFlag15(gen, flag)
  /\ input' = flag
  /\ op' = "UseFlag"
  /\ UNCHANGED <<nCalls, output>>
  /\ GenFrame

\* gen.NewWithTime(t): the counter is incremented and the ID built
GenNew(secs) ==
  /\ nCalls < MaxCalls
  /\ nCalls' = nCalls + 1
  /\ gen' = [gen EXCEPT !.counter = AddUint32One(gen.counter)]
  /\ output' = newID15(gen', secs)
  /\ input' = secs
  /\ op' = "New"
  /\ GenFrame

GenNext ==
  \/ \E ip \in IPValues : GenUseIP(ip)
  \/ \E port \in PortValues : GenUsePort(port)
  \/ \E flag \in FlagValues15 : GenUseFlag(flag)
  \/ \E secs \in ClockValues : GenNew(secs)

SpecGenerator == GenInit /\ [][GenNext]_vars

(***************************************************************************)
(* The 15-byte ID and its text forms (id.go).  A result is the error and   *)
(* the ID the caller is left with; "panic" stands for a run-time panic.    *)
(***************************************************************************)
uuidLen == 36

\* maxEncoded = "wUlFeUHcE1B9u5BFOMyF"
maxEncoded ==
  <<119, 85, 108, 70, 101, 85, 72, 99, 69, 49, 66, 57, 117, 53, 66, 70, 79, 77, 121, 70>>

Invalid(id) == [err |-> "ErrInvalidID", id |-> id]

\* FromBytes: 15 bytes with the top bit of b[11] clear
FromBytes(b) ==
  IF Len(b) # rawLen \/ b[rawLen - 3] >= 128 THEN Invalid(nilID) ELSE Ok(b)

\* a String that puts the digits first and the padding after them
String15PadRight(id) ==
  LET t == encodeBase62(encodedLen, id)
      n == CHOOSE k \in 0..encodedLen :
             /\ \A j \in 1..k : t[j] = 48
             /\ (k = encodedLen \/ t[k + 1] # 48)
  IN Slice(t, n + 1, encodedLen) \o Filled(n, 48)

\* ID.String and ID.MarshalText of the 15-byte ID
String15(id) == encodeBase62(encodedLen, id)

\* ID.UUID: the 30 hex digits in groups of 8, 4, 4, 4, then "00" and the last 10
UUID(id) ==
  LET h == hexEncode(id)
  IN Slice(h, 1, 8) \o <<45>> \o Slice(h, 9, 12) \o <<45>> \o Slice(h, 13, 16) \o <<45>>
       \o Slice(h, 17, 20) \o <<45, 48, 48>> \o Slice(h, 21, 30)

\* FromUUID: the groups are moved together and decoded as hex; the bytes at
\* 8, 13, 18 and 23..25 of the text are not looked at
FromUUID(uuid) ==
  IF Len(uuid) # uuidLen THEN Invalid(nilID)
  ELSE LET d == hexDecode(Slice(uuid, 1, 8) \o Slice(uuid, 10, 13) \o Slice(uuid, 15, 18)
                            \o Slice(uuid, 20, 23) \o Slice(uuid, 27, 36))
       IN IF d.ok THEN Ok(d.bytes) ELSE Invalid(nilID)

\* ID.UnmarshalText on the receiver id: the length, bytes.Compare with
\* maxEncoded, then decodeBase62, whose result is not looked at
UnmarshalText(id, text) ==
  IF Len(text) # encodedLen THEN Invalid(id)
  ELSE IF LexLess(maxEncoded, text) THEN Invalid(id)
  ELSE LET r == decodeBase62(rawLen, text)
       IN IF r.err = "nil" THEN Ok(r.dst) ELSE [err |-> "panic", id |-> id]

\* FromString
FromString(str) == UnmarshalText(nilID, str)

\* ID.UnmarshalJSON: "null", else the text between the first and the last
\* byte; b[1 : len(b)-1] panics for fewer than 2 bytes
UnmarshalJSON(id, b) ==
  IF b = <<110, 117, 108, 108>> THEN Ok(nilID)
  ELSE IF Len(b) < 2 THEN [err |-> "panic", id |-> id]
  ELSE UnmarshalText(id, Slice(b, 2, Len(b) - 1))

\* ID.Scan of a value given as its dynamic type and content
Scan(id, value) ==
  IF value.type \in {"string", "bytes"} THEN UnmarshalText(id, value.val)
  ELSE IF value.type = "nil" THEN Ok(nilID)
  ELSE [err |-> "unsupported type", id |-> id]

\* ID.Compare: bytes.Compare
Compare15(a, b) == IF LexLess(a, b) THEN 0 - 1 ELSE IF a = b THEN 0 ELSE 1

(***************************************************************************)
(* One generator of the 15-byte ID, configured before its first use, mints *)
(* IDs; the short form of the last one is restored by the same generator.  *)
(***************************************************************************)
\* the bytes of a big-endian number shifted by one bit; the bit shifted out is lost
ShiftLeft1(b) ==
  [i \in 1..Len(b) |-> ((b[i] * 2) % 256) + (IF i < Len(b) THEN b[i + 1] \div 128 ELSE 0)]

ShiftRight1(b) ==
  [i \in 1..Len(b) |-> (b[i] \div 2) + (IF i > 1 THEN (b[i - 1] % 2) * 128 ELSE 0)]

\* ID.Counter: the int32 of the last 4 bytes
Counter(id) ==
  LET v == ((id[12] % 128) * 256 + id[13]) * 65536 + id[14] * 256 + id[15]
  IN IF id[12] >= 128 THEN v - 2147483647 - 1 ELSE v

\* ID.Short: int64(t)<<31 | int64(c), as 8 big-endian bytes
Short15(id) ==
  LET t == ShiftRight1(Slice(id, 1, 4) \o Zeros(4))
  IN Slice(t, 1, 4)
       \o <<IF id[12] >= 128 THEN id[12] ELSE id[12] + t[5]>>
       \o Slice(id, 13, 15)

\* a fromShort that takes the generator's fields but leaves the time zero
fromShortNoTime(g, short) ==
  IF short[1] >= 128 THEN Invalid(nilID)
  ELSE Ok(Zeros(4) \o <<g.flag>> \o g.machineID \o PutUint16(g.pid)
            \o <<short[5] % 128>> \o Slice(short, 6, 8))

\* fromShort: the time is short>>31, the counter the low 31 bits, the rest
\* the generator's
fromShort(g, short) ==
  IF short[1] >= 128 THEN Invalid(nilID)
  ELSE Ok(Slice(ShiftLeft1(short), 1, 4) \o <<g.flag>> \o g.machineID \o PutUint16(g.pid)
            \o <<short[5] % 128>> \o Slice(short, 6, 8))

\* the counter after many calls: before the low 31 bits and before the 32
\* bits return to 0
CountersInUse == CounterSeeds15 \cup {<<32767, 65534>>, <<65535, 65534>>}

\* generators in use: as made by NewGenerator, or with flag, IP and port set
GeneratorsInUse ==
  {[h EXCEPT !.counter = c] :
     h \in NewGenerators
            \cup {UsePort(UseIP(UseFlag15(g, 123), <<10, 9, 8, 7>>), 65432) : g \in NewGenerators},
     c \in CountersInUse}

\* t.Unix() - epoch of the times of minting
MintSecs == ClockValues \cup {16777217, 2147483647}

MintInit ==
  /\ gen \in GeneratorsInUse
  /\ counter = 0
  /\ lastIssued = 0
  /\ mu = 0
  /\ pc = [th \in Threads |-> "idle"]
  /\ readT = [th \in Threads |-> 0]
  /\ incr = [th \in Threads |-> 0]
  /\ nCalls = 0
  /\ minted = <<>>
  /\ input = <<>>
  /\ op = "none"
  /\ output = <<>>

\* gen.New(): the counter is incremented and the ID built
MintNew(secs) ==
  /\ nCalls < MaxCalls
  /\ nCalls' = nCalls + 1
  /\ gen' = [gen EXCEPT !.counter = AddUint32One(gen.counter)]
  /\ minted' = Append(minted, newID15(gen', secs))
  /\ op' = "New"
  /\ input' = <<>>
  /\ output' = <<>>
  /\ UNCHANGED <<counter, lastIssued, mu, pc, readT, incr>>

\* gen.FromShort(id.Short()) for the ID minted last
MintFromShort ==
  /\ op = "New"
  /\ op' = "FromShort"
  /\ input' = Short15(minted[Len(minted)])
  /\ output' = fromShort(gen, input')
  /\ UNCHANGED seqVars

MintNext ==
  \/ \E secs \in MintSecs : MintNew(secs)
  \/ MintFromShort

SpecMint == MintInit /\ [][MintNext]_vars

(***************************************************************************)
(* The parsers of the 15-byte ID, each applied to one text.                *)
(***************************************************************************)
\* the ID of TestIDString
IDScenario == <<77, 136, 225, 91, 0, 124, 96, 244, 134, 228, 40, 0, 65, 45, 201>>

\* the largest ID FromBytes accepts
IDMax == Filled(11, 255) \o <<127, 255, 255, 255>>

\* 15-byte buffers: the nil ID, the two above, all bytes 0xff, and those with
\* one byte set or one byte of the largest cleared
RawIDs ==
  {nilID, IDScenario, IDMax, Filled(rawLen, 255)}
    \cup {Put(nilID, p, <<b>>) : p \in 0..(rawLen - 1), b \in {1, 127, 128, 255}}
    \cup {Put(IDMax, p, <<0>>) : p \in 0..(rawLen - 1)}

\* the IDs FromBytes accepts
IDs15 == {b \in RawIDs : FromBytes(b).err = "nil"}

\* UUID texts: those of the buffers, with the two unused characters changed,
\* with a hyphen or a digit replaced, and of another length
UUIDTexts ==
  {UUID(b) : b \in RawIDs}
    \cup {Put(UUID(b), 24, w) : b \in {nilID, IDScenario}, w \in {<<48, 49>>, <<102, 102>>, <<122, 122>>}}
    \cup {Put(UUID(IDScenario), p, <<c>>) : p \in {0, 8, 23, 35}, c \in {45, 48, 103}}
    \cup {Slice(UUID(IDScenario), 1, 35), UUID(IDScenario) \o <<48>>, <<>>}

\* texts for FromString: encodings, texts of other lengths, texts above
\* maxEncoded, and texts of 20 bytes with a byte that is no base62 character
StringTexts ==
  {String15(id) : id \in {nilID, IDScenario, IDMax}}
    \cup {Filled(n, 48) : n \in {0, 7, 19, 21}}
    \cup {Put(maxEncoded, 19, <<71>>), Filled(encodedLen, 122), Filled(encodedLen, 200)}
    \cup {Put(String15(id), p, <<c>>) :
            id \in {nilID, IDScenario}, p \in {0, 1, 19}, c \in {33, 47, 58, 95, 123, 128, 200}}

\* JSON values: quoted texts, null, and values of fewer than 2 bytes
JSONTexts == {<<34>> \o t \o <<34>> : t \in StringTexts} \cup {<<110, 117, 108, 108>>, <<>>, <<34>>}

\* values given to Scan
ScanValues ==
  {[type |-> ty, val |-> t] : ty \in {"string", "bytes"}, t \in StringTexts}
    \cup {[type |-> "nil", val |-> <<>>], [type |-> "int", val |-> <<>>]}

TextInit ==
  /\ SeqIdle
  /\ input \in [fn : {"FromUUID"}, src : UUIDTexts]
               \cup [fn : {"FromString", "UnmarshalText"}, src : StringTexts]
               \cup [fn : {"UnmarshalJSON"}, src : JSONTexts]
               \cup [fn : {"Scan"}, src : ScanValues]
  /\ op = "none"
  /\ output = <<>>

DoFromUUID ==
  /\ op = "none" /\ input.fn = "FromUUID"
  /\ op' = "FromUUID"
  /\ output' = FromUUID(input.src)
  /\ UNCHANGED <<seqVars, input>>

DoFromString ==
  /\ op = "none" /\ input.fn = "FromString"
  /\ op' = "FromString"
  /\ output' = FromString(input.src)
  /\ UNCHANGED <<seqVars, input>>

\* the three methods are called on a receiver holding the nil ID
DoUnmarshalText ==
  /\ op = "none" /\ input.fn = "UnmarshalText"
  /\ op' = "UnmarshalText"
  /\ output' = UnmarshalText(nilID, input.src)
  /\ UNCHANGED <<seqVars, input>>

DoUnmarshalJSON ==
  /\ op = "none" /\ input.fn = "UnmarshalJSON"
  /\ op' = "UnmarshalJSON"
  /\ output' = UnmarshalJSON(nilID, input.src)
  /\ UNCHANGED <<seqVars, input>>

DoScan ==
  /\ op = "none" /\ input.fn = "Scan"
  /\ op' = "Scan"
  /\ output' = Scan(nilID, input.src)
  /\ UNCHANGED <<seqVars, input>>

TextNext == DoFromUUID \/ DoFromString \/ DoUnmarshalText \/ DoUnmarshalJSON \/ DoScan

SpecText == TextInit /\ [][TextNext]_vars

(***************************************************************************)
(* Two 15-byte buffers: the string form of the first is parsed back, and   *)
(* the two are compared as IDs and as strings.                             *)
(***************************************************************************)
PairInit ==
  /\ SeqIdle
  /\ input \in [a : RawIDs, b : RawIDs]
  /\ op = "none"
  /\ output = <<>>

\* FromString(a.String())
DoStringRoundTrip ==
  /\ op = "none"
  /\ op' = "FromString(String)"
  /\ output' = [text |-> String15(input.a), parsed |-> FromString(String15(input.a))]
  /\ UNCHANGED <<seqVars, input>>

\* a.Compare(b), and a.String() compared with b.String()
DoCompare15 ==
  /\ op = "none"
  /\ op' = "Compare"
  /\ output' = [cmp |-> Compare15(input.a, input.b),
                 less |-> LexLess(String15(input.a), String15(input.b))]
  /\ UNCHANGED <<seqVars, input>>

PairNext == DoStringRoundTrip \/ DoCompare15

SpecPair == PairInit /\ [][PairNext]_vars

(***************************************************************************)
(* Properties of the parsers.                                              *)
(***************************************************************************)
\* the 3 bits of the kind in the first 48 bits of a buffer of at least 6 bytes
Discriminant(src) == src[6] % 8

\* an error value was returned: the call neither succeeded nor panicked
Rejected(r) == r.err \notin {"nil", "panic"}

\* C11: ParseBinary fails with the incorrect-length error for a buffer below 16
\* bytes; else with the unknown-type error when the discriminant is 7; else with
\* the incorrect-length error when the length is not the width of the kind; each
\* failure returns the zero ID.
C11_ParseBinaryChecksInOrder ==
  op = "ParseBinary" =>
    LET n == Len(input.src)
        width == IF Discriminant(input.src) \in {Random, HostID, IPv4, Specified4} THEN 16
                 ELSE IF Discriminant(input.src) = Specified8 THEN 20 ELSE 28
    IN /\ n < 16 => output.parsed = [err |-> "errIncorrectBinaryLength", id |-> zeroID]
       /\ (n >= 16 /\ Discriminant(input.src) = 7)
            => output.parsed = [err |-> "errUnknownMachineIDType", id |-> zeroID]
       /\ (n >= 16 /\ Discriminant(input.src) # 7 /\ n # width)
            => output.parsed = [err |-> "errIncorrectBinaryLength", id |-> zeroID]
       /\ output.parsed.err # "nil" => output.parsed.id = zeroID

\* a buffer of 17 bytes, a width of no kind, with discriminant 7: the kind's error
C11_Witness ==
  /\ op = "ParseBinary"
  /\ Len(input.src) = 17
  /\ Discriminant(input.src) = 7
  /\ output.parsed.err = "errUnknownMachineIDType"

\* C12: ParseBase62 returns the incorrect-base62-length error, without decoding,
\* for every input whose length is not 22, 27 or 38; and when it succeeds with an
\* ID, the length of the input is the base62 width of the ID's kind.
C12_ParseBase62Lengths ==
  op = "ParseBase62" =>
    /\ Len(input.src) \notin {22, 27, 38}
         => output.parsed = [err |-> "errIncorrectBase62Length", id |-> zeroID]
    /\ output.parsed.err = "nil"
         => Len(input.src) =
              (IF output.parsed.id.mIDType \in {Random, HostID, IPv4, Specified4} THEN 22
               ELSE IF output.parsed.id.mIDType = Specified8 THEN 27 ELSE 38)

\* a text of 23 bytes that are no ASCII characters, which the decoder could not
\* index its table with, gets the length error
C12_Witness ==
  /\ op = "ParseBase62"
  /\ Len(input.src) = 23
  /\ input.src[1] = 200
  /\ output.parsed.err = "errIncorrectBase62Length"

\* C13: ParseString rejects an input of at least 38 characters whose character at
\* index 21 is not a digit 0..6 with the unknown-type error, and one whose length
\* differs from the width implied by that digit with the incorrect-length error,
\* both before any calendar, millisecond or hex field is parsed.
C13_ParseStringCheapChecksFirst ==
  (op = "ParseString" /\ Len(input.src) >= 38) =>
    LET c == input.src[22]
        width == IF c \in {48, 49, 50, 52} THEN 38 ELSE IF c = 53 THEN 46 ELSE 62
    IN /\ c \notin 48..54
         => output.parsed = [err |-> "errUnknownMachineIDType", id |-> zeroID]
       /\ (c \in 48..54 /\ Len(input.src) # width)
         => output.parsed = [err |-> "errIncorrectStringLength", id |-> zeroID]

\* month 13 and kind digit 7 in one input: the kind's error, not the calendar's
C13_Witness ==
  /\ op = "ParseString"
  /\ Len(input.src) = 46
  /\ Slice(input.src, 5, 6) = <<49, 51>>
  /\ input.src[22] = 55
  /\ output.parsed.err = "errUnknownMachineIDType"

\* C14 as stated: a base62 text one character short, a string form with kind
\* digit 7 and any buffer of 17 bytes are each rejected, with three different
\* errors.
C14_ThreeDistinctErrors ==
  op = "ParseThree" =>
    /\ Rejected(output.b62) /\ Rejected(output.str) /\ Rejected(output.bin)
    /\ output.b62.err # output.str.err
    /\ output.b62.err # output.bin.err
    /\ output.str.err # output.bin.err

\* C14: a base62 text one character short, a string form with kind digit 7 and a
\* buffer of 17 bytes whose discriminant is not 7 are each rejected, with three
\* different errors.
C14_ThreeDistinctErrorsKnownKind ==
  (op = "ParseThree" /\ Discriminant(input.bin) # 7) =>
    /\ Rejected(output.b62) /\ Rejected(output.str) /\ Rejected(output.bin)
    /\ output.b62.err # output.str.err
    /\ output.b62.err # output.bin.err
    /\ output.str.err # output.bin.err

\* the three errors, for a text of 26 characters and a buffer of kind Specified8
C14_Witness ==
  /\ op = "ParseThree"
  /\ Len(input.b62) = 26
  /\ Discriminant(input.bin) = Specified8
  /\ output.b62.err = "errIncorrectBase62Length"
  /\ output.str.err = "errUnknownMachineIDType"
  /\ output.bin.err = "errIncorrectBinaryLength"

\* C15: ParseBase62 of a text of a valid length that holds a character outside
\* 0-9A-Za-z fails with the invalid-character error and returns no ID.
C15_InvalidCharacterRejected ==
  (/\ op = "ParseBase62"
   /\ Len(input.src) \in {22, 27, 38}
   /\ \E i \in 1..Len(input.src) : input.src[i] \notin (48..57) \cup (65..90) \cup (97..122))
    => output.parsed = [err |-> "errInvalidBase62Character", id |-> zeroID]

(***************************************************************************)
(* Properties of the flag.                                                 *)
(***************************************************************************)
\* the stored flag fields of IDs whose flag was never set
UnsetStoredFlags == {newID(g, Zeros(8), 0, rf).flag : g \in {h \in GenSet : h.flag = 0}, rf \in RandFlags}

\* C16: for a flag f of 0..32767, the ID minted by a generator configured
\* with UseFlag(f) and the ID returned by SetFlag(f) both report Flag() = f,
\* and the stored field of an explicitly set flag 0 is not the stored field
\* of an ID whose flag was never set.
C16_FlagReadsBack ==
  /\ (op = "New" /\ input.use \in 0..32767) => Flag(output) = input.use
  /\ (op = "SetFlag" /\ input.set \in 0..32767) => Flag(output) = input.set
  /\ (op = "SetFlag" /\ input.set = 0) => output.flag \notin UnsetStoredFlags
  /\ (op = "New" /\ input.use = 0) => output.flag \notin UnsetStoredFlags

\* an ID minted with UseFlag(12345) whose flag was then set to 0
C16_Witness ==
  /\ op = "SetFlag"
  /\ input = [use |-> 12345, set |-> 0]
  /\ output.flag = flagMask
  /\ Flag(output) = 0

\* C17: an ID minted by a generator with no flag configured carries a random
\* flag drawn when it is minted, the generator keeping no flag, and its Flag()
\* is 0; a configured flag is never replaced by a random one.
C17_RandomFlagAtMint ==
  /\ gen \in GenSet
  /\ \A i \in 1..Len(minted) :
       /\ gen.flag = 0 => (minted[i].id.flag \in RandFlags /\ Flag(minted[i].id) = 0)
       /\ gen.flag # 0 => minted[i].id.flag = gen.flag

\* one unconfigured generator minted two IDs with different random flags
C17_Witness ==
  /\ gen.flag = 0
  /\ \E i, j \in 1..Len(minted) :
       /\ minted[i].id.flag # minted[j].id.flag
       /\ Flag(minted[i].id) = 0
       /\ Flag(minted[j].id) = 0

\* C18: NewWithTime(t) returns an ID whose timeMsec is t in milliseconds and
\* whose counter is the shared 16-bit counter's next value, previous plus 1
\* with wrap-around; the pair is not corrected against lastIssued, and
\* lastIssued is left as it was.
C18_NewWithTimeUncorrected ==
  [][\A th \in Threads, nsec \in NanoTimes, rf \in RandFlags :
       NewWithTime(th, nsec, rf) =>
         /\ Len(minted') = Len(minted) + 1
         /\ minted'[Len(minted')].id.timeMsec = I64(nsec \div 1000000)
         /\ counter' = (counter + 1) % 65536
         /\ minted'[Len(minted')].id.counter = counter'
         /\ lastIssued' = lastIssued]_vars

\* after a call of New, NewWithTime was given an earlier time and returned it,
\* with the counter wrapped to 0
C18_Witness ==
  \E i, j \in 1..Len(minted) :
    /\ j < i
    /\ minted[j].op = "New"
    /\ minted[i].op = "NewWithTime"
    /\ minted[i].id.counter = 0
    /\ LessI64(minted[i].id.timeMsec, minted[j].id.timeMsec)
    /\ lastIssued > Composite(1, 65535)

(***************************************************************************)
(* Properties of the generator of the 15-byte ID.                          *)
(***************************************************************************)
\* a step of UsePort
UsePortStep == op' = "UsePort" /\ (op # "UsePort" \/ input' # input \/ gen' # gen)

UsePortFrame ==
  /\ gen'.machineID = gen.machineID
  /\ gen'.flag = gen.flag
  /\ gen'.counter = gen.counter

\* every ID minted reports the generator's pid as its port, and only UsePort
\* changes the pid
PortFollowsGenerator ==
  /\ [](op = "New" => Port(output) = gen.pid)
  /\ [][op' # "UsePort" => gen'.pid = gen.pid]_vars

\* C19 as stated: UsePort(0) leaves the pid unchanged, UsePort(p) with p > 0
\* sets it to p, so that IDs minted afterwards report Port() = p; neither
\* changes the machine ID, the flag or the counter.
C19_UsePortSetsAnyPositive ==
  /\ [][UsePortStep =>
         /\ input' = 0 => gen'.pid = gen.pid
         /\ input' > 0 => gen'.pid = input'
         /\ UsePortFrame]_vars
  /\ PortFollowsGenerator

\* C19: UsePort(0) leaves the pid unchanged, UsePort(p) with p in 1..65535
\* sets it to p, so that IDs minted afterwards report Port() = p; neither
\* changes the machine ID, the flag or the counter.
C19_UsePortSets16Bits ==
  /\ [][UsePortStep =>
         /\ input' = 0 => gen'.pid = gen.pid
         /\ input' \in 1..65535 => gen'.pid = input'
         /\ UsePortFrame]_vars
  /\ PortFollowsGenerator

\* UsePort(0) on a generator whose port 65432 an ID minted earlier reports
C19_Witness ==
  /\ op = "UsePort"
  /\ input = 0
  /\ gen.pid = 65432
  /\ nCalls > 0
  /\ Port(output) = 65432

\* C20: an ID of 15 bytes minted by a generator configured with UseFlag(f),
\* f in 0..127, reports Flag() = f whatever IP and port are configured, and
\* one minted with the random flag reports Flag() = 0.
C20_Flag15ReadsBack ==
  op = "New" => Flag15(output) = (IF gen.flag < 128 THEN gen.flag ELSE 0)

(***************************************************************************)
(* Properties of the 15-byte ID's text forms.                              *)
(***************************************************************************)
\* C21: FromUUID returns ErrInvalidID for a UUID text of 36 characters whose
\* two unused characters are not "00" and for one whose counter has its top
\* bit set; it accepts the all-zero UUID and the UUID of the largest ID,
\* whose String() is maxEncoded.
C21_FromUUIDValidates ==
  (op = "FromUUID" /\ Len(input.src) = uuidLen) =>
    /\ Slice(input.src, 25, 26) # <<48, 48>> => output.err = "ErrInvalidID"
    /\ fromHexChar(input.src[27 + 2]) >= 8 => output.err = "ErrInvalidID"
    /\ input.src \in {UUID(nilID), UUID(IDMax)} => output.err = "nil"
    /\ input.src = UUID(IDMax) => String15(output.id) = maxEncoded

\* the text a call of FromString, UnmarshalText, Scan or UnmarshalJSON is to parse
TextOf(in) ==
  IF in.fn = "UnmarshalJSON" THEN Slice(in.src, 2, Len(in.src) - 1)
  ELSE IF in.fn = "Scan" THEN in.src.val
  ELSE in.src

\* the text is the encoding of an ID: 20 base62 characters, not above maxEncoded
IsEncoding(t) ==
  /\ Len(t) = encodedLen
  /\ \A k \in 1..Len(t) : t[k] \in (48..57) \cup (65..90) \cup (97..122)
  /\ ~LexLess(maxEncoded, t)

\* the call was given a text: a string, a byte slice or a quoted JSON string
GivenText ==
  \/ op \in {"FromString", "UnmarshalText"}
  \/ op = "Scan" /\ input.src.type \in {"string", "bytes"}
  \/ op = "UnmarshalJSON" /\ Len(input.src) >= 2 /\ input.src # <<110, 117, 108, 108>>

\* C22: FromString, UnmarshalText, Scan and UnmarshalJSON return ErrInvalidID,
\* and do not panic, for every text that is not the 20-character base62
\* encoding of an ID: one of another length, one above maxEncoded, one with
\* a byte outside 0-9A-Za-z.
C22_InvalidTextRejected ==
  (GivenText /\ ~IsEncoding(TextOf(input))) => output.err = "ErrInvalidID"

C24_StringOrder15 ==
  (op = "Compare" /\ FromBytes(input.a).err = "nil" /\ FromBytes(input.b).err = "nil") =>
    (output.cmp < 0 <=> output.less)

\* two accepted IDs that differ in the byte holding the counter's high bits only
C24_Witness ==
  /\ op = "Compare"
  /\ input.a = Put(nilID, 11, <<1>>)
  /\ input.b = Put(nilID, 11, <<127>>)
  /\ output.cmp < 0
  /\ output.less

(***************************************************************************)
(* Properties of minting 15-byte IDs.                                      *)
(***************************************************************************)
\* C25 as stated: two consecutive New() calls on one generator give different
\* IDs with the same machine ID and pid, the Counter() of the second being
\* the Counter() of the first plus 1.
C25_CounterPlusOne ==
  \A i \in 1..(Len(minted) - 1) :
    /\ minted[i] # minted[i + 1]
    /\ Machine(minted[i]) = Machine(minted[i + 1])
    /\ Port(minted[i]) = Port(minted[i + 1])
    /\ Counter(minted[i + 1]) - 1 = Counter(minted[i])

\* C25: two consecutive New() calls on one generator give different IDs with
\* the same machine ID and pid, the Counter() of the second being the
\* Counter() of the first plus 1, or 0 after 2^31 - 1.
C25_CounterPlusOneMod31 ==
  \A i \in 1..(Len(minted) - 1) :
    /\ minted[i] # minted[i + 1]
    /\ Machine(minted[i]) = Machine(minted[i + 1])
    /\ Port(minted[i]) = Port(minted[i + 1])
    /\ Counter(minted[i]) >= 0
    /\ IF Counter(minted[i]) = 2147483647 THEN Counter(minted[i + 1]) = 0
       ELSE Counter(minted[i + 1]) - 1 = Counter(minted[i])

\* three IDs minted in the same second, the counter passing 2^31 - 1
C25_Witness ==
  /\ Len(minted) = 3
  /\ Counter(minted[1]) = 2147483647
  /\ Counter(minted[2]) = 0
  /\ Counter(minted[3]) = 1
  /\ Slice(minted[1], 1, 4) = Slice(minted[3], 1, 4)

\* C26: for an ID minted by a generator g, g.FromShort(id.Short()) returns no
\* error and the same 15 bytes.
C26_FromShortRestores ==
  op = "FromShort" => output = Ok(minted[Len(minted)])

\* an ID minted at an odd second by a generator with flag, IP and port set,
\* restored from its short form
C26_Witness ==
  /\ op = "FromShort"
  /\ output.err = "nil"
  /\ output.id = minted[Len(minted)]
  /\ Slice(output.id, 1, 4) = PutUint32(16777217)
  /\ Flag15(Put(nilID, 5, <<output.id[5]>>)) = 123
  /\ Port(output.id) = 65432

(***************************************************************************)
(* Properties of the sequencer's locked section.                           *)
(***************************************************************************)
\* thread th leaves the locked section in this step
Leaves(th) == pc[th] = "crit" /\ pc'[th] = "idle"

\* the ID the step's call returned
Returned == minted'[Len(minted')].id

\* lastIssued as the pair (timeMsec, counter)
LastPair == I64(lastIssued \div 65536) \o PutUint16(lastIssued % 65536)

\* C27: in the locked section, a composite of the clock reading and the
\* incremented counter that is greater than lastIssued is returned as it is;
\* otherwise the pair split from lastIssued + 1 is returned (time = composite
\* >> 16, counter = low 16 bits); either way lastIssued is the returned
\* composite when the lock is released.
C27_LockedSectionDecision ==
  [][\A th \in Threads :
       Leaves(th) =>
         /\ Composite(readT[th], incr[th]) > lastIssued =>
              /\ Returned.timeMsec = I64(readT[th])
              /\ Returned.counter = incr[th]
         /\ Composite(readT[th], incr[th]) <= lastIssued =>
              /\ Returned.timeMsec = I64((lastIssued + 1) \div 65536)
              /\ Returned.counter = (lastIssued + 1) % 65536
         /\ LastPair' = PairOf(Returned)
         /\ mu = th /\ mu' = 0]_vars

\* one call returned its own pair with counter 65535, a later one the pair
\* split from lastIssued + 1: the next millisecond, which no clock showed,
\* and counter 0
C27_Witness ==
  \E i, j \in 1..Len(minted) :
    /\ i < j
    /\ minted[i].op = "New" /\ minted[j].op = "New"
    /\ minted[i].id.timeMsec = I64(MaxClock) /\ minted[i].id.counter = 65535
    /\ minted[j].id.timeMsec = I64(MaxClock + 1) /\ minted[j].id.counter = 0
    /\ lastIssued = Composite(MaxClock + 1, 0)

\* C29: lastIssued never decreases, it is the largest composite the locked
\* section has handed out so far, and the time a call returns is never
\* below the clock value the call read.
C29_LastIssuedIsLargest ==
  /\ [][lastIssued' >= lastIssued]_vars
  /\ [](LET a == NewIDs(minted)
        IN /\ \A i \in 1..Len(a) : ~LexLess(LastPair, PairOf(a[i].id))
           /\ IF a = <<>> THEN lastIssued = 0 ELSE PairOf(a[Len(a)].id) = LastPair)
  /\ [][\A th \in Threads :
          Leaves(th) => ~LessI64(Returned.timeMsec, I64(readT[th]))]_vars

\* all calls returned, and the counter of lastIssued is ahead of the shared
\* counter: a call was given more than the pair it brought
C29_Witness ==
  /\ AllIdle
  /\ Len(NewIDs(minted)) = Len(minted)
  /\ Len(minted) >= 2
  /\ lastIssued % 65536 = (counter + 1) % 65536

(***************************************************************************)
(* The binary form in both directions: an ID of any timeMsec an int64 can  *)
(* hold is written and read back, and a buffer is read and written back.   *)
(***************************************************************************)
\* -1, -(2^45) and the least int64
TNegOne == Filled(8, 255)
TNeg45 == <<255, 255, 224, 0, 0, 0, 0, 0>>
TMin == <<128, 0, 0, 0, 0, 0, 0, 0>>

WireTimes == CodecTimes \cup {TNegOne, TNeg45, TMin}

WireIDs ==
  UNION { { MkID(t, p, c, f, k, m) :
              t \in WireTimes, p \in CodecPids, c \in CodecCounters, f \in CodecFlags,
              m \in CodecMachineIDs(k) } : k \in Kinds }

WireLens == {16, 17, 20, 28, 29}

\* buffers of every length and discriminant: all zero, all 0xFF, and one byte set at
\* each position
WireBuffers ==
  UNION { { [i \in 1..n |-> IF i = 6 THEN (b[i] - (b[i] % 8)) + k ELSE b[i]] : b \in BuffersOf(n) }
            : n \in WireLens, k \in 0..7 }

WireInit ==
  /\ SeqIdle
  /\ \/ input \in [form : {"id"}, id : WireIDs, zone : {0}]
     \/ input \in [form : {"binary"}, src : WireBuffers, zone : {0}]
  /\ op = "none"
  /\ output = <<>>

\* ParseBinary(id.Binary())
WireBinary ==
  /\ input.form = "id"
  /\ DoBinary

\* ParseBinary(b), and Binary() of the ID when there is one
WireParse ==
  /\ op = "none"
  /\ input.form = "binary"
  /\ op' = "ParseBinary"
  /\ LET parsed == ParseBinary(input.src)
     IN output' = [parsed |-> parsed,
                   again |-> IF parsed.err = "nil" THEN Binary(parsed.id) ELSE <<>>]
  /\ UNCHANGED input

WireNext ==
  \/ WireBinary /\ UNCHANGED seqVars
  \/ WireParse /\ UNCHANGED seqVars

SpecWire == WireInit /\ [][WireNext]_vars

\* the low 45 bits of a 64-bit value
Low45(t) == [i \in 1..8 |-> IF i <= 2 THEN 0 ELSE IF i = 3 THEN t[3] % 32 ELSE t[i]]

\* C28: the first 6 bytes of Binary() are the low 48 bits of timeMsec<<3 | kind, so
\* ParseBinary recovers the kind exactly and timeMsec modulo 2^45, and the recovered
\* timeMsec is the original exactly when 0 <= timeMsec < 2^45.
C28_TimeModulo45Bits ==
  (op = "Binary" /\ input.form = "id") =>
    LET t == input.id.timeMsec
        first48 == <<0, 0>> \o Slice(output.enc, 1, 6)
        got == output.parsed.id
    IN /\ Shr3(first48) = Low45(t)
       /\ first48[8] % 8 = input.id.mIDType
       /\ output.parsed.err = "nil"
       /\ got.mIDType = input.id.mIDType
       /\ got.timeMsec = Low45(t)
       /\ (got.timeMsec = t) <=> (t[1] < 128 /\ LessI64(t, T45))

\* -1 comes back as 2^45 - 1, under the kind it was written with
C28_Witness ==
  /\ op = "Binary"
  /\ input.form = "id"
  /\ input.id.timeMsec = TNegOne
  /\ input.id.mIDType = Specified16
  /\ output.parsed.id.timeMsec = T45Last
  /\ output.parsed.id.mIDType = Specified16

\* C30: for every buffer b that ParseBinary accepts, ParseBinary(b).Binary() is b.
C30_BinaryCanonical ==
  (op = "ParseBinary" /\ input.form = "binary" /\ output.parsed.err = "nil")
    => output.again = input.src

\* 28 bytes of 0xFF under the kind Specified16 are accepted and written back
C30_Witness ==
  /\ op = "ParseBinary"
  /\ input.form = "binary"
  /\ Len(input.src) = 28
  /\ input.src[28] = 255
  /\ input.src[1] = 255
  /\ output.parsed.err = "nil"
  /\ output.parsed.id.mIDType = Specified16
  /\ output.again = input.src

====
